---- MODULE Spec2Model ----
(***************************************************************************)
(* PDF Tarot Reader: the analyze pipeline (text -> keywords -> category -> *)
(* seeded reading) and the render pipeline (validate -> load -> compose    *)
(* cover -> merge -> send), modelled from the JavaScript sources.          *)
(*                                                                         *)
(* Strings the code inspects character by character (document text,        *)
(* titles, keywords) are sequences of UTF-16 code units.  Strings the code *)
(* only passes around (deck entries, messages) are TLA+ strings.           *)
(***************************************************************************)
EXTENDS Integers, Sequences, FiniteSets, TLC

VARIABLES
  \* module-level tables of readingGenerator.js (mutable objects in JavaScript)
  cardDecks, auras, certifications,
  \* the module-level stop-word Set of the keyword extractor
  stopWords,
  \* one invocation of analyzeRoute
  apc, areq, text, title, keywords, category, seed, reading, ares, prev,
  \* one invocation of extractKeywords
  kpc, ktext, kmax, kresult,
  \* one invocation of the render handler
  rpc, rreq, analysis, originalPdf, coverPdf, mergedPdf, pdfBytes, rres,
  \* the response the caller received to its previous render request when
  \* the current request repeats that request
  rprev,
  \* one call of a helper function: which one, its arguments, what it returned
  hpc, hargs, hresult,
  \* the useAnalysis hook and the analyze() calls made on it
  analysisHook, analyzeCalls,
  \* the useExport hook and the exportPdf() calls made on it
  exportHook, exportCalls,
  \* the browser's localStorage as the storage wrapper sees it, and one call
  \* of setItem: its key, what it returned, the writes it made
  localStorage, storageCall,
  \* the useReading hook: the reveal state of the three cards, the timers it
  \* has set that have not fired, whether an analysis it started is running,
  \* how often onReadingComplete was called, and the calls made on the hook
  cardRevealStates, revealComplete, timers, analyzing, readingCompleteCalls,
  readingCalls,
  \* the App component: its view, and the ExportButton it shows
  currentView, exportButton

deckVars   == <<cardDecks, auras, certifications, stopWords>>
analyzeVars == <<apc, areq, text, title, keywords, category, seed, reading, ares, prev>>
keywordVars == <<kpc, ktext, kmax, kresult>>
renderVars == <<rpc, rreq, analysis, originalPdf, coverPdf, mergedPdf, pdfBytes, rres, rprev>>
helperVars == <<hpc, hargs, hresult>>
hookVars == <<analysisHook, analyzeCalls, exportHook, exportCalls>>
storageVars == <<localStorage, storageCall>>
revealVars ==
  <<cardRevealStates, revealComplete, timers, analyzing, readingCompleteCalls, readingCalls>>
appVars == <<currentView, exportButton>>
viewVars == <<revealVars, appVars>>
vars == <<deckVars, analyzeVars, keywordVars, renderVars, helperVars, hookVars, storageVars, viewVars>>

\* ------------------------------------------------------------------ bounds
\* words per document text in the analyze pipeline
MaxDocWords == 2
\* words per text handed to extractKeywords
MaxWords == 4
\* pages of an original document
MaxPages == 3
\* cards in a submitted analysis
MaxCards == 4
\* calls of a hook's operations (analyze or exportPdf, retry, reset, cancel) made
\* on one hook instance
MaxOperations == 2
\* the small seeds handed to the five selections: 0..MaxSeed
MaxSeed == 80
\* setItem frames the call stack has room for
StackLimit == 3
\* entries of a stored reading history
MaxEntries == 2
\* characters of one serialized history entry
EntrySize == 120
\* length of the long filler word of the document pool
FillerLen == 500
\* keywords handed to categorizeDocument
MaxKeywords == 3
\* words per text handed to wrapText, and the largest maxChars
MaxWrapWords == 4
MaxWrapChars == 5
\* code units of the short raw titles handed to cleanTitle
MaxTitleChars == 3
\* longest text and largest maxLength handed to truncateText alone
MaxTruncate == 8
\* calls made on one useReading hook
MaxReadingCalls == 4

\* ------------------------------------------------------- program constants
MAX_TEXT_LENGTH == 3000
HASH_PREFIX_LENGTH == 500
FIRST_LINE_LENGTH == 100
TITLE_LENGTH == 80
MIN_TEXT_LENGTH == 10
MIN_WORD_LENGTH == 3
DEFAULT_MAX_KEYWORDS == 10

\* undefined, where the code expects a deck entry / a string of code units
Undefined == "undefined"
UndefinedString == <<-1>>

Min(a, b) == IF a <= b THEN a ELSE b

\* ------------------------------------------------- JavaScript string helpers
\* str.slice(0, n): a negative n counts from the end
slice(str, n) ==
  IF n >= 0 THEN SubSeq(str, 1, Min(n, Len(str)))
  ELSE IF Len(str) + n >= 1 THEN SubSeq(str, 1, Len(str) + n) ELSE <<>>

\* WhiteSpace and LineTerminator code units: what \s and trim() match
IsSpace(c) ==
  \/ c \in {9, 10, 11, 12, 13, 32, 160, 5760, 8232, 8233, 8239, 8287, 12288, 65279}
  \/ c \in 8192..8202

IsDigit(c) == c \in 48..57
IsLower(c) == c \in 97..122
IsUpper(c) == c \in 65..90
\* \w
IsWordChar(c) == IsDigit(c) \/ IsLower(c) \/ IsUpper(c) \/ c = 95

\* String.prototype.toLowerCase, per code unit: A-Z, and the two non-ASCII
\* code units whose lower case contains an ASCII letter (U+0130, U+212A)
lowerUnit(c) ==
  IF IsUpper(c) THEN <<c + 32>>
  ELSE IF c = 8490 THEN <<107>>
  ELSE IF c = 304 THEN <<105, 775>>
  ELSE <<c>>

\* the elements of s at the indices in keep, lo..hi, in order of index
\* (the range is halved so that long strings nest only logarithmically)
RECURSIVE pick(_, _, _, _)
pick(s, keep, lo, hi) ==
  IF lo > hi THEN <<>>
  ELSE IF lo = hi THEN (IF lo \in keep THEN <<s[lo]>> ELSE <<>>)
  ELSE pick(s, keep, lo, (lo + hi) \div 2) \o pick(s, keep, ((lo + hi) \div 2) + 1, hi)

\* array.filter(Keep)
filterSeq(s, Keep(_)) == pick(s, {i \in 1..Len(s) : Keep(s[i])}, 1, Len(s))

\* the concatenation of parts[lo], ..., parts[hi]
RECURSIVE concat(_, _, _)
concat(parts, lo, hi) ==
  IF lo > hi THEN <<>>
  ELSE IF lo = hi THEN parts[lo]
  ELSE concat(parts, lo, (lo + hi) \div 2) \o concat(parts, ((lo + hi) \div 2) + 1, hi)

toLowerCase(str) == concat([i \in 1..Len(str) |-> lowerUnit(str[i])], 1, Len(str))

\* the index of the first code unit at or after from that satisfies Stop,
\* Len(str) + 1 when there is none
firstIndex(str, from, Stop(_)) ==
  CHOOSE j \in from..(Len(str) + 1) :
    /\ j = Len(str) + 1 \/ Stop(str[j])
    /\ \A k \in from..(j - 1) : ~Stop(str[k])

IsNotSpace(c) == ~IsSpace(c)
IsNewline(c) == c = 10

\* the index of the last code unit that is not white space, 0 when none
lastNonSpace(str) ==
  CHOOSE j \in 0..Len(str) :
    /\ j = 0 \/ ~IsSpace(str[j])
    /\ \A k \in (j + 1)..Len(str) : IsSpace(str[k])

\* str.trim()
trim(str) == SubSeq(str, firstIndex(str, 1, IsNotSpace), lastNonSpace(str))

\* str.split('\n')[0]
firstLineOf(str) == SubSeq(str, 1, firstIndex(str, 1, IsNewline) - 1)

\* str.split(/\s+/): the pieces between maximal runs of white space, an empty
\* piece before a leading run and after a trailing one.  A piece starts at
\* index 1 and after the last code unit of every run.
splitWhitespace(str) ==
  LET n == Len(str)
      starts == {p \in 1..(n + 1) :
                   p = 1 \/ (IsSpace(str[p - 1]) /\ (p = n + 1 \/ ~IsSpace(str[p])))}
      ordered == pick([i \in 1..(n + 1) |-> i], starts, 1, n + 1)
  IN [k \in 1..Len(ordered) |->
        SubSeq(str, ordered[k], firstIndex(str, ordered[k], IsSpace) - 1)]

\* ------------------------------------------------------ keywordExtractor.js
\* The stop words, each as its sequence of UTF-16 code units.

STOP_WORDS ==
  {<<116, 104, 101>> (* the *),
   <<97>> (* a *),
   <<97, 110>> (* an *),
   <<97, 110, 100>> (* and *),
   <<111, 114>> (* or *),
   <<98, 117, 116>> (* but *),
   <<105, 110>> (* in *),
   <<111, 110>> (* on *),
   <<97, 116>> (* at *),
   <<116, 111>> (* to *),
   <<102, 111, 114>> (* for *),
   <<111, 102>> (* of *),
   <<119, 105, 116, 104>> (* with *),
   <<98, 121>> (* by *),
   <<102, 114, 111, 109>> (* from *),
   <<97, 115>> (* as *),
   <<105, 115>> (* is *),
   <<119, 97, 115>> (* was *),
   <<97, 114, 101>> (* are *),
   <<119, 101, 114, 101>> (* were *),
   <<98, 101, 101, 110>> (* been *),
   <<98, 101>> (* be *),
   <<104, 97, 118, 101>> (* have *),
   <<104, 97, 115>> (* has *),
   <<104, 97, 100>> (* had *),
   <<100, 111>> (* do *),
   <<100, 111, 101, 115>> (* does *),
   <<100, 105, 100>> (* did *),
   <<119, 105, 108, 108>> (* will *),
   <<119, 111, 117, 108, 100>> (* would *),
   <<99, 111, 117, 108, 100>> (* could *),
   <<115, 104, 111, 117, 108, 100>> (* should *),
   <<109, 97, 121>> (* may *),
   <<109, 105, 103, 104, 116>> (* might *),
   <<109, 117, 115, 116>> (* must *),
   <<115, 104, 97, 108, 108>> (* shall *),
   <<99, 97, 110>> (* can *),
   <<110, 101, 101, 100>> (* need *),
   <<100, 97, 114, 101>> (* dare *),
   <<111, 117, 103, 104, 116>> (* ought *),
   <<117, 115, 101, 100>> (* used *),
   <<116, 104, 105, 115>> (* this *),
   <<116, 104, 97, 116>> (* that *),
   <<116, 104, 101, 115, 101>> (* these *),
   <<116, 104, 111, 115, 101>> (* those *),
   <<105, 116>> (* it *),
   <<105, 116, 115>> (* its *),
   <<116, 104, 101, 121>> (* they *),
   <<116, 104, 101, 109>> (* them *),
   <<116, 104, 101, 105, 114>> (* their *),
   <<119, 101>> (* we *),
   <<117, 115>> (* us *),
   <<111, 117, 114>> (* our *),
   <<121, 111, 117>> (* you *),
   <<121, 111, 117, 114>> (* your *),
   <<105>> (* i *),
   <<109, 101>> (* me *),
   <<109, 121>> (* my *),
   <<104, 101>> (* he *),
   <<104, 105, 109>> (* him *),
   <<104, 105, 115>> (* his *),
   <<115, 104, 101>> (* she *),
   <<104, 101, 114>> (* her *),
   <<119, 104, 105, 99, 104>> (* which *),
   <<119, 104, 111>> (* who *),
   <<119, 104, 111, 109>> (* whom *),
   <<119, 104, 97, 116>> (* what *),
   <<119, 104, 101, 114, 101>> (* where *),
   <<119, 104, 101, 110>> (* when *),
   <<119, 104, 121>> (* why *),
   <<104, 111, 119>> (* how *),
   <<97, 108, 108>> (* all *),
   <<101, 97, 99, 104>> (* each *),
   <<101, 118, 101, 114, 121>> (* every *),
   <<98, 111, 116, 104>> (* both *),
   <<102, 101, 119>> (* few *),
   <<109, 111, 114, 101>> (* more *),
   <<109, 111, 115, 116>> (* most *),
   <<111, 116, 104, 101, 114>> (* other *),
   <<115, 111, 109, 101>> (* some *),
   <<115, 117, 99, 104>> (* such *),
   <<110, 111>> (* no *),
   <<110, 111, 116>> (* not *),
   <<111, 110, 108, 121>> (* only *),
   <<115, 97, 109, 101>> (* same *),
   <<115, 111>> (* so *),
   <<116, 104, 97, 110>> (* than *),
   <<116, 111, 111>> (* too *),
   <<118, 101, 114, 121>> (* very *),
   <<106, 117, 115, 116>> (* just *),
   <<97, 108, 115, 111>> (* also *),
   <<110, 111, 119>> (* now *),
   <<104, 101, 114, 101>> (* here *),
   <<116, 104, 101, 114, 101>> (* there *),
   <<116, 104, 101, 110>> (* then *),
   <<111, 110, 99, 101>> (* once *),
   <<112, 97, 103, 101>> (* page *),
   <<100, 111, 99, 117, 109, 101, 110, 116>> (* document *),
   <<102, 105, 108, 101>> (* file *),
   <<118, 101, 114, 115, 105, 111, 110>> (* version *),
   <<100, 97, 116, 101>> (* date *),
   <<110, 101, 119>> (* new *),
   <<111, 110, 101>> (* one *),
   <<116, 119, 111>> (* two *),
   <<116, 104, 114, 101, 101>> (* three *),
   <<102, 105, 114, 115, 116>> (* first *),
   <<108, 97, 115, 116>> (* last *),
   <<110, 101, 120, 116>> (* next *),
   <<97, 110, 121>> (* any *),
   <<109, 97, 110, 121>> (* many *),
   <<109, 117, 99, 104>> (* much *),
   <<111, 119, 110>> (* own *)}

\* The category table, in table order.

categories ==
  <<[name |-> "technical", words |->
      <<<<99, 111, 100, 101>> (* code *),
        <<115, 111, 102, 116, 119, 97, 114, 101>> (* software *),
        <<115, 121, 115, 116, 101, 109>> (* system *),
        <<100, 97, 116, 97>> (* data *),
        <<97, 112, 105>> (* api *),
        <<102, 117, 110, 99, 116, 105, 111, 110>> (* function *),
        <<101, 114, 114, 111, 114>> (* error *),
        <<100, 101, 98, 117, 103>> (* debug *)>>],
    [name |-> "business", words |->
      <<<<114, 101, 118, 101, 110, 117, 101>> (* revenue *),
        <<115, 97, 108, 101, 115>> (* sales *),
        <<109, 97, 114, 107, 101, 116>> (* market *),
        <<99, 117, 115, 116, 111, 109, 101, 114>> (* customer *),
        <<115, 116, 114, 97, 116, 101, 103, 121>> (* strategy *),
        <<103, 114, 111, 119, 116, 104>> (* growth *),
        <<98, 117, 100, 103, 101, 116>> (* budget *)>>],
    [name |-> "legal", words |->
      <<<<97, 103, 114, 101, 101, 109, 101, 110, 116>> (* agreement *),
        <<99, 111, 110, 116, 114, 97, 99, 116>> (* contract *),
        <<116, 101, 114, 109, 115>> (* terms *),
        <<112, 97, 114, 116, 121>> (* party *),
        <<99, 108, 97, 117, 115, 101>> (* clause *),
        <<108, 105, 97, 98, 105, 108, 105, 116, 121>> (* liability *),
        <<108, 97, 119>> (* law *)>>],
    [name |-> "academic", words |->
      <<<<114, 101, 115, 101, 97, 114, 99, 104>> (* research *),
        <<115, 116, 117, 100, 121>> (* study *),
        <<97, 110, 97, 108, 121, 115, 105, 115>> (* analysis *),
        <<104, 121, 112, 111, 116, 104, 101, 115, 105, 115>> (* hypothesis *),
        <<109, 101, 116, 104, 111, 100, 111, 108, 111, 103, 121>> (* methodology *),
        <<114, 101, 115, 117, 108, 116, 115>> (* results *)>>],
    [name |-> "creative", words |->
      <<<<100, 101, 115, 105, 103, 110>> (* design *),
        <<99, 111, 110, 99, 101, 112, 116>> (* concept *),
        <<99, 114, 101, 97, 116, 105, 118, 101>> (* creative *),
        <<98, 114, 97, 110, 100>> (* brand *),
        <<118, 105, 115, 117, 97, 108>> (* visual *),
        <<115, 116, 111, 114, 121>> (* story *),
        <<99, 111, 110, 116, 101, 110, 116>> (* content *)>>],
    [name |-> "administrative", words |->
      <<<<109, 101, 101, 116, 105, 110, 103>> (* meeting *),
        <<97, 103, 101, 110, 100, 97>> (* agenda *),
        <<109, 105, 110, 117, 116, 101, 115>> (* minutes *),
        <<97, 99, 116, 105, 111, 110>> (* action *),
        <<114, 101, 118, 105, 101, 119>> (* review *),
        <<114, 101, 112, 111, 114, 116>> (* report *),
        <<115, 116, 97, 116, 117, 115>> (* status *)>>]>>

\* .replace(/[^a-z0-9\s]/g, ' ')
replaceNonAlnum(str) ==
  concat([i \in 1..Len(str) |->
            IF IsLower(str[i]) \/ IsDigit(str[i]) \/ IsSpace(str[i])
            THEN <<str[i]>> ELSE <<32>>],
         1, Len(str))

keepWord_stopWordsKept(word) == Len(word) > MIN_WORD_LENGTH

\* .filter(word => word.length > 3 && !STOP_WORDS.has(word)), on the Set as it stands
keepWord(word) == Len(word) > MIN_WORD_LENGTH /\ word \notin stopWords

tokenize(str) ==
  filterSeq(splitWhitespace(replaceNonAlnum(toLowerCase(str))), keepWord)

\* frequency[word] = (frequency[word] || 0) + 1, over all words.  (The one
\* inherited key the tokenizer can produce, "constructor", is in no pool.)
countOf(words, w) == Cardinality({i \in 1..Len(words) : words[i] = w})

\* the own string keys of the frequency object in insertion order: each word
\* at its first occurrence
insertionOrder(words) ==
  pick(words, {i \in 1..Len(words) : \A j \in 1..(i - 1) : words[j] /= words[i]},
       1, Len(words))

\* lexicographic a <= b for digit strings of equal length
RECURSIVE digitsLeq(_, _)
digitsLeq(a, b) ==
  IF a = <<>> THEN TRUE
  ELSE IF Head(a) /= Head(b) THEN Head(a) < Head(b)
       ELSE digitsLeq(Tail(a), Tail(b))

\* 2^32 - 2, the largest array index, as a digit string
MaxArrayIndex == <<52, 50, 57, 52, 57, 54, 55, 50, 57, 52>>

\* a property key that is an array index: the canonical decimal form of an
\* integer in 0 .. 2^32 - 2
IsArrayIndex(key) ==
  /\ Len(key) >= 1
  /\ \A i \in 1..Len(key) : IsDigit(key[i])
  /\ (Len(key) = 1 \/ key[1] /= 48)
  /\ \/ Len(key) < Len(MaxArrayIndex)
     \/ Len(key) = Len(MaxArrayIndex) /\ digitsLeq(key, MaxArrayIndex)

\* numeric a < b for two array-index keys
indexLess(a, b) ==
  \/ Len(a) < Len(b)
  \/ Len(a) = Len(b) /\ a /= b /\ digitsLeq(a, b)

RECURSIVE ascendingIndexKeys(_, _)
ascendingIndexKeys(keys, acc) ==
  IF keys = <<>> THEN acc
  ELSE LET k == Head(keys)
           n == Cardinality({i \in 1..Len(acc) : indexLess(acc[i], k)})
       IN ascendingIndexKeys(Tail(keys),
            SubSeq(acc, 1, n) \o <<k>> \o SubSeq(acc, n + 1, Len(acc)))

isNotArrayIndex(key) == ~IsArrayIndex(key)

\* the key order of Object.entries (OrdinaryOwnPropertyKeys): array-index
\* keys in ascending numeric order, then the other keys in insertion order
ownPropertyKeys(keys) ==
  ascendingIndexKeys(filterSeq(keys, IsArrayIndex), <<>>)
    \o filterSeq(keys, isNotArrayIndex)

\* Object.entries(frequency)
objectEntries(words) ==
  LET keys == ownPropertyKeys(insertionOrder(words))
  IN [i \in 1..Len(keys) |-> <<keys[i], countOf(words, keys[i])>>]

\* .sort((a, b) => b[1] - a[1]): stable, descending count
RECURSIVE sortByCount(_, _)
sortByCount(entries, acc) ==
  IF entries = <<>> THEN acc
  ELSE LET e == Head(entries)
           n == Cardinality({i \in 1..Len(acc) : acc[i][2] >= e[2]})
       IN sortByCount(Tail(entries),
            SubSeq(acc, 1, n) \o <<e>> \o SubSeq(acc, n + 1, Len(acc)))

extractKeywords(str, maxKeywords) ==
  LET sorted == sortByCount(objectEntries(tokenize(str)), <<>>)
      top == slice(sorted, maxKeywords)
  IN [i \in 1..Len(top) |-> top[i][1]]

\* category.words.filter(w => keywordSet.has(w)).length
score(words, keywordSet) ==
  Cardinality({i \in 1..Len(words) : words[i] \in keywordSet})

\* a loop that replaces the best match on an equal score: score >= bestMatch.score
RECURSIVE bestCategory_lastWins(_, _, _)
bestCategory_lastWins(i, keywordSet, bestMatch) ==
  IF i > Len(categories) THEN bestMatch
  ELSE LET s == score(categories[i].words, keywordSet)
       IN IF s >= bestMatch.score
          THEN bestCategory_lastWins(i + 1, keywordSet,
                                     [name |-> categories[i].name, score |-> s])
          ELSE bestCategory_lastWins(i + 1, keywordSet, bestMatch)

RECURSIVE bestCategory(_, _, _)
bestCategory(i, keywordSet, bestMatch) ==
  IF i > Len(categories) THEN bestMatch
  ELSE LET s == score(categories[i].words, keywordSet)
       IN IF s > bestMatch.score
          THEN bestCategory(i + 1, keywordSet, [name |-> categories[i].name, score |-> s])
          ELSE bestCategory(i + 1, keywordSet, bestMatch)

categorizeDocument(kws) ==
  LET keywordSet == {toLowerCase(kws[i]) : i \in 1..Len(kws)}
  IN bestCategory(1, keywordSet, [name |-> "general", score |-> 0]).name

\* --------------------------------------------------------- textExtractor.js
UntitledDocument ==
  <<85, 110, 116, 105, 116, 108, 101, 100, 32, 68, 111, 99, 117, 109, 101, 110, 116>>

\* the allow-list of cleanTitle: [\w\s\-_.,!?'"()]
titleCharAllowed(c) ==
  IsWordChar(c) \/ IsSpace(c) \/ c \in {45, 95, 46, 44, 33, 63, 39, 34, 40, 41}

\* .replace(/\s+/g, ' ')
collapseWhitespace(str) ==
  pick([i \in 1..Len(str) |-> IF IsSpace(str[i]) THEN 32 ELSE str[i]],
       {i \in 1..Len(str) : ~IsSpace(str[i]) \/ i = 1 \/ ~IsSpace(str[i - 1])},
       1, Len(str))

\* a cleanTitle that collapses the whitespace before it removes characters
cleanTitle_collapseFirst(raw) ==
  LET cleaned == slice(trim(filterSeq(collapseWhitespace(raw), titleCharAllowed)),
                       TITLE_LENGTH)
  IN IF cleaned = <<>> THEN UntitledDocument ELSE cleaned

cleanTitle(raw) ==
  LET cleaned == slice(trim(collapseWhitespace(filterSeq(raw, titleCharAllowed))),
                       TITLE_LENGTH)
  IN IF cleaned = <<>> THEN UntitledDocument ELSE cleaned

\* an extractText that trims before it truncates
extractedText_trimFirst(data) == slice(trim(data.text), MAX_TEXT_LENGTH)

\* extractText after pdfParse resolved with data = [text, info.Title]
extractedText(data) == trim(slice(data.text, MAX_TEXT_LENGTH))

extractedTitle(data) ==
  LET firstLine == trim(firstLineOf(extractedText(data)))
      fallback == IF slice(firstLine, FIRST_LINE_LENGTH) = <<>>
                  THEN UntitledDocument
                  ELSE slice(firstLine, FIRST_LINE_LENGTH)
  IN cleanTitle(IF data.infoTitle = <<>> THEN fallback ELSE data.infoTitle)

\* ------------------------------------------------------ readingGenerator.js
CARD_DECKS ==
  [past |->
  <<[name |-> "The Procrastinator",
     meaning |-> "This document began its journey in the depths of someone's 'to-do later' pile. It has known neglect, yet persevered."],
    [name |-> "The Midnight Oil",
     meaning |-> "Born from late-night inspiration and questionable coffee decisions. This document carries the energy of deadlines past."],
    [name |-> "The Copy-Paste Sage",
     meaning |-> "Much wisdom here was borrowed from documents that came before. Standing on the shoulders of templates."],
    [name |-> "The Revision Maze",
     meaning |-> "This document has seen many versions, each one slightly different, none quite right. Version 17 remembers."],
    [name |-> "The Abandoned Draft",
     meaning |-> "Once begun with great enthusiasm, then forgotten for weeks. Its early paragraphs still echo with optimism."],
    [name |-> "The Meeting Minutes",
     meaning |-> "This document was birthed in a conference room. It carries the collective indecision of many voices."],
    [name |-> "The Inherited Legacy",
     meaning |-> "Someone else started this. The original author has moved on, leaving only cryptic comments behind."],
    [name |-> "The Scope Creeper",
     meaning |-> "What began as a simple task grew into something far more complex. Feature creep left its mark."]>>,
   present |->
  <<[name |-> "The Attention Seeker",
     meaning |-> "Right now, this document desperately wants to be read. It yearns for someone to actually make it to page 2."],
    [name |-> "The Hopeful Attachment",
     meaning |-> "Currently sitting in an inbox, waiting to be opened. It believes today could be the day."],
    [name |-> "The Polished Facade",
     meaning |-> "Presenting its best self with clean formatting and professional fonts. But we know the tracked changes it hides."],
    [name |-> "The Meeting Survivor",
     meaning |-> "This document has been projected onto screens and scrutinized by many. It seeks validation."],
    [name |-> "The Urgent Flag",
     meaning |-> "Marked as important! High priority! But is anyone actually reading it? The document wonders."],
    [name |-> "The Circling Approval",
     meaning |-> "Currently making rounds through the approval chain. Each signature brings it closer to its destiny."],
    [name |-> "The Open Tab",
     meaning |-> "Living in a browser tab among dozens of others. Occasionally glimpsed but never fully absorbed."],
    [name |-> "The Desktop Dweller",
     meaning |-> "Saved to the desktop for \"quick access.\" Now buried under 47 other files with similar intentions."]>>,
   future |->
  <<[name |-> "The Forgotten Archive",
     meaning |-> "Beware! This document's destiny leads to a folder called 'Old Stuff' where it will languish for eternity."],
    [name |-> "The Scope Creep",
     meaning |-> "Warning: Additional requirements approach. This document will grow to twice its intended size."],
    [name |-> "The Reply All Catastrophe",
     meaning |-> "Danger ahead! This document may be accidentally sent to people who should never see it."],
    [name |-> "The Printer Nemesis",
     meaning |-> "A formatting disaster awaits. Margins will shift, fonts will change, and someone will say \"it looked fine on my screen.\""],
    [name |-> "The Endless Revision",
     meaning |-> "More feedback is coming. Version numbers will climb. The \"final\" version will spawn many children."],
    [name |-> "The Deadline Demon",
     meaning |-> "A hard deadline approaches. Corners will be cut. Sleep will be lost. The document will ship anyway."],
    [name |-> "The Silent Archive",
     meaning |-> "After much fanfare, this document will be filed away and never opened again. Such is the cycle."],
    [name |-> "The Rebirth",
     meaning |-> "This document will be repurposed. Its content will live on in presentations, emails, and other forms."]>>]

AURAS ==
  <<[name |-> "Focus Goblin", description |-> "Highly concentrated content, dense with purpose"],
    [name |-> "Deadline Phantom", description |-> "Created under pressure, radiates urgency"],
    [name |-> "Meeting Magnet", description |-> "Will spawn many discussions and calendar invites"],
    [name |-> "Inbox Specter", description |-> "Destined to haunt email threads"],
    [name |-> "Revision Wraith", description |-> "Will undergo many transformations"],
    [name |-> "Approval Seeker", description |-> "Craves validation from stakeholders"],
    [name |-> "Scope Creeper", description |-> "Tends to expand beyond original boundaries"],
    [name |-> "Format Warrior", description |-> "Fights valiantly against inconsistent styling"],
    [name |-> "Archive Wanderer", description |-> "Seeks a final resting place in the file system"],
    [name |-> "Tab Haunter", description |-> "Will live in browser tabs indefinitely"]>>

CERTIFICATIONS ==
  <<"Certified Chaotic Neutral",
    "Professionally Procrastinated",
    "Officially Overthought",
    "Beautifully Bureaucratic",
    "Delightfully Disorganized",
    "Strategically Ambiguous",
    "Carefully Cluttered",
    "Magnificently Meandering",
    "Perfectly Pending",
    "Blissfully Bloated">>

\* JavaScript numbers that are integers, kept as hi * 2^16 + lo with
\* lo in 0 .. 2^16 - 1 and hi any integer: exact for every value the hash
\* computation produces, including those outside the 32-bit range.
Radix == 2^16
Num(hi, lo) == [hi |-> hi, lo |-> lo]
Zero == Num(0, 0)
IsNegative(n) == n.hi < 0
IsInt32(n) == n.hi \in -32768..32767

\* n + k for a small integer k >= 0 (a code unit, an offset)
addSmall(n, k) == Num(n.hi + ((n.lo + k) \div Radix), (n.lo + k) % Radix)

\* a - b, exact
subtract(a, b) ==
  IF a.lo >= b.lo THEN Num(a.hi - b.hi, a.lo - b.lo)
  ELSE Num(a.hi - b.hi - 1, a.lo - b.lo + Radix)

\* ToInt32: reduction modulo 2^32 into -2^31 .. 2^31 - 1
toInt32(n) == Num(((n.hi + 32768) % Radix) - 32768, n.lo)

\* hash << 5: the int32 operand times 32, reduced by ToInt32
shiftLeft5(n) ==
  toInt32(Num(n.hi * 32 + ((n.lo * 32) \div Radix), (n.lo * 32) % Radix))

\* hash & hash
andSelf(n) == toInt32(n)

\* Math.abs
abs(n) ==
  IF ~IsNegative(n) THEN n
  ELSE IF n.lo = 0 THEN Num(-n.hi, 0) ELSE Num(-n.hi - 1, Radix - n.lo)

\* n % m for a small integer m > 0: the result has the sign of n
remainder(n, m) ==
  LET a == abs(n)
      r == (((a.hi % m) * (Radix % m)) + (a.lo % m)) % m
  IN IF IsNegative(n) THEN -r ELSE r

\* a loop body that drops "- hash": hash * 32 + char
hashStep_timesThirtyTwo(hash, char) == andSelf(addSmall(shiftLeft5(hash), char))

\* one iteration of the loop of hashCode
hashStep(hash, char) == andSelf(addSmall(subtract(shiftLeft5(hash), hash), char))

\* the iterations for i = from .. to, in order.  The range is halved so that
\* long strings nest only logarithmically; the hash after the first half is
\* an int32 (hash & hash), and testing that evaluates it before the second.
RECURSIVE hashLoop(_, _, _, _)
hashLoop(str, from, to, hash) ==
  IF from > to THEN hash
  ELSE IF from = to THEN hashStep(hash, str[from])
  ELSE LET firstHalf == hashLoop(str, from, (from + to) \div 2, hash)
       IN IF IsInt32(firstHalf)
          THEN hashLoop(str, ((from + to) \div 2) + 1, to, firstHalf)
          ELSE firstHalf

\* a hashCode that returns the signed hash, without Math.abs
hashCode_signed(str) == hashLoop(str, 1, Len(str), Zero)

hashCode(str) == abs(hashLoop(str, 1, Len(str), Zero))

seededIndex_offsetIgnored(length, seedValue, offset) == remainder(seedValue, length)

\* const index = (seed + offset) % array.length
seededIndex(length, seedValue, offset) == remainder(addSmall(seedValue, offset), length)

\* whether array[index] is an element: index counts from 0
isDefinedSelection(array, seedValue, offset) ==
  seededIndex(Len(array), seedValue, offset) \in 0..(Len(array) - 1)

\* return array[index], undefined outside the array
selectSeeded(array, seedValue, offset) ==
  IF isDefinedSelection(array, seedValue, offset)
  THEN array[seededIndex(Len(array), seedValue, offset) + 1]
  ELSE Undefined

\* a seed over the whole text: hashCode(text + title)
seedOf_wholeText(txt, ttl) == hashCode(txt \o ttl)

\* const seed = hashCode(text.slice(0, 500) + title)
seedOf(txt, ttl) == hashCode(slice(txt, HASH_PREFIX_LENGTH) \o ttl)

\* a selectSeeded that draws the card: array.splice(index, 1) on the past deck
decksAfterSelection_drawn(decks, seedValue) ==
  LET drawn == seededIndex(Len(decks.past), seedValue, 0) + 1
  IN [decks EXCEPT !.past = [k \in 1..(Len(@) - 1) |-> IF k < drawn THEN @[k] ELSE @[k + 1]]]

\* the module-level decks after the selections of one generateReading:
\* selectSeeded only reads array[index], so they are what they were
decksAfterSelection(decks, seedValue) == decks

NoReading ==
  [title |-> <<>>, keywords |-> <<>>, category |-> "", aura |-> "",
   certification |-> "", cards |-> <<>>]

\* pastCard.name, presentCard.name, futureCard.name and aura.name throw a
\* TypeError when the selection is undefined
selectionThrows(seedValue, decks, auraDeck) ==
  ~ /\ isDefinedSelection(decks.past, seedValue, 0)
    /\ isDefinedSelection(decks.present, seedValue, 1)
    /\ isDefinedSelection(decks.future, seedValue, 2)
    /\ isDefinedSelection(auraDeck, seedValue, 3)
readingOf_presentFromPast(seedValue, ttl, kws, cat, decks, auraDeck, certDeck) ==
  LET pastCard == selectSeeded(decks.past, seedValue, 0)
      presentCard == selectSeeded(decks.past, seedValue, 1)
      futureCard == selectSeeded(decks.future, seedValue, 2)
      aura == selectSeeded(auraDeck, seedValue, 3)
      certification == selectSeeded(certDeck, seedValue, 4)
  IN [title |-> ttl,
      keywords |-> kws,
      category |-> cat,
      aura |-> aura.name,
      certification |-> certification,
      cards |-> <<[position |-> "past", name |-> pastCard.name, meaning |-> pastCard.meaning],
                  [position |-> "present", name |-> presentCard.name, meaning |-> presentCard.meaning],
                  [position |-> "future", name |-> futureCard.name, meaning |-> futureCard.meaning]>>]

\* generateReading after the seed is computed: the five selections and the
\* returned object
readingOf(seedValue, ttl, kws, cat, decks, auraDeck, certDeck) ==
  LET pastCard == selectSeeded(decks.past, seedValue, 0)
      presentCard == selectSeeded(decks.present, seedValue, 1)
      futureCard == selectSeeded(decks.future, seedValue, 2)
      aura == selectSeeded(auraDeck, seedValue, 3)
      certification == selectSeeded(certDeck, seedValue, 4)
  IN [title |-> ttl,
      keywords |-> kws,
      category |-> cat,
      aura |-> aura.name,
      certification |-> certification,
      cards |-> <<[position |-> "past", name |-> pastCard.name, meaning |-> pastCard.meaning],
                  [position |-> "present", name |-> presentCard.name, meaning |-> presentCard.meaning],
                  [position |-> "future", name |-> futureCard.name, meaning |-> futureCard.meaning]>>]

\* generateReading({ title, keywords, category, text }) on the current decks
generateReading(ttl, kws, cat, txt, decks, auraDeck, certDeck) ==
  readingOf(seedOf(txt, ttl), ttl, kws, cat, decks, auraDeck, certDeck)

\* AnalysisResponseSchema.parse(reading)
Positions == {"past", "present", "future"}
schemaAccepts(r) ==
  /\ r.aura /= Undefined
  /\ r.certification /= Undefined
  /\ Len(r.cards) = 3
  /\ \A i \in 1..Len(r.cards) :
        r.cards[i].position \in Positions /\ r.cards[i].name /= Undefined
                                           /\ r.cards[i].meaning /= Undefined

\* --------------------------------------------------- the documents analyzed
\* the long filler word: "lorem lorem ..." cut at FillerLen code units
Lorem == <<108, 111, 114, 101, 109, 32>>
Filler == [i \in 1..FillerLen |-> Lorem[((i - 1) % 6) + 1]]

\* "Zodiacbewcbqci": as text and first-line title it hashes to -2^31
ZodiacWord == <<90, 111, 100, 105, 97, 99, 98, 101, 119, 99, 98, 113, 99, 105>>
\* "Code\n2024"
CodeLines == <<67, 111, 100, 101, 10, 50, 48, 50, 52>>
DocPool == <<Filler, ZodiacWord, CodeLines>>

\* "Q3 <Plan>: budget", a metadata title with characters off the allow-list
RawTitle == <<81, 51, 32, 60, 80, 108, 97, 110, 62, 58, 32, 98, 117, 100, 103, 101, 116>>
TitlePool == {<<>>, RawTitle}

RECURSIVE joinWords(_, _)
joinWords(pool, idx) ==
  IF idx = <<>> THEN <<>>
  ELSE IF Len(idx) = 1 THEN pool[Head(idx)]
       ELSE pool[Head(idx)] \o <<32>> \o joinWords(pool, Tail(idx))

IndexSeqs(n, max) == UNION {[1..k -> 1..n] : k \in 0..max}

DocTexts == {joinWords(DocPool, idx) : idx \in IndexSeqs(Len(DocPool), MaxDocWords)}

\* a request: no file, a file pdfParse rejects, or a file pdfParse reads as
\* data.text and data.info.Title ("" when the metadata has none)
NoFileRequest == [hasFile |-> FALSE, parseOk |-> FALSE, text |-> <<>>, infoTitle |-> <<>>]
CorruptRequest == [hasFile |-> TRUE, parseOk |-> FALSE, text |-> <<>>, infoTitle |-> <<>>]
\* "scanned pages" behind so many spaces that the cut at MAX_TEXT_LENGTH
\* keeps 9 or 10 of its code units
ScannedPages == <<115, 99, 97, 110, 110, 101, 100, 32, 112, 97, 103, 101, 115>>
PaddedRequests ==
  {[hasFile |-> TRUE, parseOk |-> TRUE, infoTitle |-> <<>>,
    text |-> [i \in 1..(MAX_TEXT_LENGTH - kept) |-> 32] \o ScannedPages] : kept \in {9, 10}}
AnalyzeRequests ==
  {NoFileRequest, CorruptRequest} \cup PaddedRequests
    \cup {[hasFile |-> TRUE, parseOk |-> TRUE, text |-> t, infoTitle |-> it] :
            t \in DocTexts, it \in TitlePool}

\* ------------------------------------------------------- routes/analyze.js
NoResponse == [status |-> 0, message |-> "", body |-> NoReading]
NoPrev == [valid |-> FALSE, text |-> <<>>, title |-> <<>>, reading |-> NoReading]

\* what the seed of a request is computed from: the title and the first 500
\* code units of the extracted text
seedInputs(txt, ttl) == <<ttl, slice(txt, HASH_PREFIX_LENGTH)>>
RequestSeedInputs ==
  [r \in AnalyzeRequests |-> seedInputs(extractedText(r), extractedTitle(r))]

AnalyzeIdle ==
  /\ apc = "idle" /\ areq = NoFileRequest
  /\ text = <<>> /\ title = <<>> /\ keywords = <<>> /\ category = ""
  /\ seed = Zero /\ reading = NoReading /\ ares = NoResponse /\ prev = NoPrev

\* analyzeRoute from its entry to the await of extractText.  prev keeps the
\* outcome of the call before it when that call answered 200 for a document
\* with the same title and the same first 500 code units of text
AnalyzeReceive ==
  /\ apc \in {"idle", "done"}
  /\ \E r \in AnalyzeRequests :
       /\ areq' = r
       /\ IF ~r.hasFile
          THEN /\ apc' = "done"
               /\ ares' = [status |-> 400, message |-> "No PDF file provided",
                           body |-> NoReading]
          ELSE /\ apc' = "extracting"
               /\ ares' = NoResponse
  /\ prev' = IF /\ apc = "done" /\ ares.status = 200
                /\ areq'.parseOk
                /\ RequestSeedInputs[areq'] = seedInputs(text, title)
             THEN [valid |-> TRUE, text |-> text, title |-> title, reading |-> reading]
             ELSE NoPrev
  /\ text' = <<>> /\ title' = <<>> /\ keywords' = <<>> /\ category' = ""
  /\ seed' = Zero /\ reading' = NoReading
  /\ UNCHANGED <<deckVars, helperVars, storageVars, viewVars, hookVars, keywordVars, renderVars>>

\* analyzeRoute from the settling of extractText to its response
AnalyzeFinish ==
  /\ apc = "extracting"
  /\ apc' = "done"
  /\ IF ~areq.parseOk
     THEN /\ ares' = [status |-> 422, message |-> "Failed to extract text from PDF",
                      body |-> NoReading]
          /\ UNCHANGED <<text, title, keywords, category, seed, reading, cardDecks>>
     ELSE
       LET txt == extractedText(areq)
           ttl == extractedTitle(areq)
       IN /\ text' = txt
          /\ title' = ttl
          /\ IF Len(txt) < MIN_TEXT_LENGTH
             THEN /\ ares' = [status |-> 422,
                              message |-> "Could not extract text from PDF. The document may be scanned or encrypted.",
                              body |-> NoReading]
                  /\ UNCHANGED <<keywords, category, seed, reading, cardDecks>>
             ELSE
               LET kws == extractKeywords(txt, DEFAULT_MAX_KEYWORDS)
                   cat == categorizeDocument(kws)
                   s == seedOf(txt, ttl)
               IN /\ keywords' = kws
                  /\ category' = cat
                  /\ seed' = s
                  /\ IF selectionThrows(s, cardDecks, auras)
                     THEN /\ reading' = NoReading
                          /\ UNCHANGED cardDecks
                          /\ ares' = [status |-> 500, message |-> "Failed to analyze PDF",
                                      body |-> NoReading]
                     ELSE
                       LET r == readingOf(s, ttl, kws, cat,
                                          cardDecks, auras, certifications)
                       IN /\ reading' = r
                          /\ cardDecks' = decksAfterSelection(cardDecks, s)
                          /\ ares' = IF schemaAccepts(r)
                                     THEN [status |-> 200, message |-> "", body |-> r]
                                     ELSE [status |-> 500,
                                           message |-> "Internal validation error",
                                           body |-> NoReading]
  /\ UNCHANGED <<areq, prev, auras, certifications, stopWords, helperVars, storageVars, viewVars, hookVars, keywordVars, renderVars>>

\* ------------------------------------------------------------ api/render.js
Ellipsis == <<46, 46, 46>>

\* a truncateText that leaves no room for the dots: text.slice(0, maxLength) + '...'
truncateText_noRoom(str, maxLength) ==
  IF Len(str) <= maxLength THEN str ELSE slice(str, maxLength) \o Ellipsis

truncateText(str, maxLength) ==
  IF Len(str) <= maxLength THEN str ELSE slice(str, maxLength - 3) \o Ellipsis

\* text.split(' '): the pieces between single spaces
splitSpaces(str) ==
  LET n == Len(str)
      starts == {p \in 1..(n + 1) : p = 1 \/ str[p - 1] = 32}
      ordered == pick([i \in 1..(n + 1) |-> i], starts, 1, n + 1)
      IsBlank(c) == c = 32
  IN [k \in 1..Len(ordered) |->
        SubSeq(str, ordered[k], firstIndex(str, ordered[k], IsBlank) - 1)]

\* a loop that forgets the joining space: currentLine.length + word.length <= maxChars
RECURSIVE wrapLoop_noSeparator(_, _, _, _, _)
wrapLoop_noSeparator(words, i, currentLine, lines, maxChars) ==
  IF i > Len(words)
  THEN IF currentLine /= <<>> THEN Append(lines, currentLine) ELSE lines
  ELSE IF Len(currentLine) + Len(words[i]) <= maxChars
       THEN wrapLoop_noSeparator(words, i + 1,
                     currentLine \o (IF currentLine /= <<>> THEN <<32>> ELSE <<>>) \o words[i],
                     lines, maxChars)
       ELSE wrapLoop_noSeparator(words, i + 1, words[i],
                     IF currentLine /= <<>> THEN Append(lines, currentLine) ELSE lines,
                     maxChars)

\* a loop that starts the new line without pushing the one it leaves
RECURSIVE wrapLoop_dropsLine(_, _, _, _, _)
wrapLoop_dropsLine(words, i, currentLine, lines, maxChars) ==
  IF i > Len(words)
  THEN IF currentLine /= <<>> THEN Append(lines, currentLine) ELSE lines
  ELSE IF Len(currentLine) + Len(words[i]) + 1 <= maxChars
       THEN wrapLoop_dropsLine(words, i + 1,
                     currentLine \o (IF currentLine /= <<>> THEN <<32>> ELSE <<>>) \o words[i],
                     lines, maxChars)
       ELSE wrapLoop_dropsLine(words, i + 1, words[i], lines, maxChars)

\* the loop of wrapText over words[i..], with the current line and the lines
\* pushed so far
RECURSIVE wrapLoop(_, _, _, _, _)
wrapLoop(words, i, currentLine, lines, maxChars) ==
  IF i > Len(words)
  THEN IF currentLine /= <<>> THEN Append(lines, currentLine) ELSE lines
  ELSE IF Len(currentLine) + Len(words[i]) + 1 <= maxChars
       THEN wrapLoop(words, i + 1,
                     currentLine \o (IF currentLine /= <<>> THEN <<32>> ELSE <<>>) \o words[i],
                     lines, maxChars)
       ELSE wrapLoop(words, i + 1, words[i],
                     IF currentLine /= <<>> THEN Append(lines, currentLine) ELSE lines,
                     maxChars)

wrapText(str, maxChars) == wrapLoop(splitSpaces(str), 1, <<>>, <<>>, maxChars)

TITLE_MAX == 50
CARD_NAME_MAX == 18
MEANING_WRAP == 22
MEANING_LINES == 5
DEFAULT_PAGE_WIDTH == 612
DEFAULT_PAGE_HEIGHT == 792

positionLabels == <<"PAST", "PRESENT", "FUTURE">>
positionColors == <<"COLORS.past", "COLORS.present", "COLORS.future">>

\* "Certified Chaotic Neutral"
DefaultCertification ==
  <<67, 101, 114, 116, 105, 102, 105, 101, 100, 32, 67, 104, 97, 111, 116, 105, 99,
    32, 78, 101, 117, 116, 114, 97, 108>>
\* "AURA: "
AuraPrefix == <<65, 85, 82, 65, 58, 32>>

IsFalsyString(s) == s = UndefinedString \/ s = <<>>

\* createCoverPage throws a TypeError where it reads .length or .split of an
\* undefined card name or meaning
coverThrows(a) ==
  \E i \in 1..3 : a.cards[i].name = UndefinedString \/ a.cards[i].meaning = UndefinedString

\* a certText without the fallback: analysis.certification as it is
certText_asGiven(a) == a.certification

\* const certText = analysis.certification || 'Certified Chaotic Neutral'
certText(a) == IF IsFalsyString(a.certification) THEN DefaultCertification ELSE a.certification

\* what createCoverPage draws on its single page
createCoverPage(a, pageWidth, pageHeight) ==
  [kind |-> "cover",
   width |-> pageWidth,
   height |-> pageHeight,
   title |-> truncateText(IF IsFalsyString(a.title) THEN UntitledDocument ELSE a.title,
                          TITLE_MAX),
   cards |-> [i \in 1..3 |->
                [label |-> positionLabels[i],
                 color |-> positionColors[i],
                 name |-> truncateText(a.cards[i].name, CARD_NAME_MAX),
                 lines |-> slice(wrapText(a.cards[i].meaning, MEANING_WRAP), MEANING_LINES)]],
   aura |-> AuraPrefix \o a.aura,
   certification |-> certText(a)]

\* --------------------------------------------------------- render requests
\* "Quarterly Report"
ReportTitle == <<81, 117, 97, 114, 116, 101, 114, 108, 121, 32, 82, 101, 112, 111, 114, 116>>
\* "Focus Goblin"
FocusGoblin == <<70, 111, 99, 117, 115, 32, 71, 111, 98, 108, 105, 110>>
\* "Perfectly Pending"
PerfectlyPending ==
  <<80, 101, 114, 102, 101, 99, 116, 108, 121, 32, 80, 101, 110, 100, 105, 110, 103>>
\* "The Rebirth"
NameRebirth == <<84, 104, 101, 32, 82, 101, 98, 105, 114, 116, 104>>
\* "The Open Tab"
NameOpenTab == <<84, 104, 101, 32, 79, 112, 101, 110, 32, 84, 97, 98>>
\* "The Reply All Catastrophe"
NameReplyAll ==
  <<84, 104, 101, 32, 82, 101, 112, 108, 121, 32, 65, 108, 108, 32, 67, 97, 116, 97,
    115, 116, 114, 111, 112, 104, 101>>
\* "Born from late-night inspiration and questionable coffee decisions."
SomeMeaning ==
  <<66, 111, 114, 110, 32, 102, 114, 111, 109, 32, 108, 97, 116, 101, 45, 110, 105,
    103, 104, 116, 32, 105, 110, 115, 112, 105, 114, 97, 116, 105, 111, 110, 32, 97,
    110, 100, 32, 113, 117, 101, 115, 116, 105, 111, 110, 97, 98, 108, 101, 32, 99,
    111, 102, 102, 101, 101, 32, 100, 101, 99, 105, 115, 105, 111, 110, 115, 46>>

\* the cards a caller may submit: one per position, and one without a name
CardPool ==
  <<[position |-> "past", name |-> NameRebirth, meaning |-> SomeMeaning],
    [position |-> "present", name |-> NameOpenTab, meaning |-> SomeMeaning],
    [position |-> "future", name |-> NameReplyAll, meaning |-> SomeMeaning],
    [position |-> "future", name |-> UndefinedString, meaning |-> SomeMeaning]>>

CardSeqs ==
  {[i \in DOMAIN idx |-> CardPool[idx[i]]] : idx \in IndexSeqs(Len(CardPool), MaxCards)}

\* the analysis objects a caller may submit; hasCards is whether the object
\* has a cards field at all
AuraValues == {UndefinedString, <<>>, FocusGoblin}
CertificationValues == {UndefinedString, <<>>, PerfectlyPending}
Analyses ==
  {[title |-> ReportTitle, hasCards |-> TRUE, cards |-> cs, aura |-> au, certification |-> ce] :
     cs \in CardSeqs, au \in AuraValues, ce \in CertificationValues}
  \cup
  {[title |-> ReportTitle, hasCards |-> FALSE, cards |-> <<>>, aura |-> au, certification |-> ce] :
     au \in AuraValues, ce \in CertificationValues}

NoAnalysis ==
  [title |-> UndefinedString, hasCards |-> FALSE, cards |-> <<>>,
   aura |-> UndefinedString, certification |-> UndefinedString]

\* the original documents: one PDFDocument.load rejects, and documents of
\* 0..MaxPages pages, page i carrying id i; the first page has one of the
\* two sizes and the pages behind it the other
PageSizes == {<<595, 842>>, <<612, 792>>}
pagesOf(n, size) ==
  LET other == CHOOSE s \in PageSizes : s /= size
  IN [i \in 1..n |-> [kind |-> "original", id |-> i,
                      width |-> IF i = 1 THEN size[1] ELSE other[1],
                      height |-> IF i = 1 THEN size[2] ELSE other[2]]]
UnloadableDocument == [loadable |-> FALSE, pages |-> <<>>]
Documents ==
  {UnloadableDocument}
    \cup {[loadable |-> TRUE, pages |-> pagesOf(n, size)] : n \in 0..MaxPages, size \in PageSizes}

\* analysisStr: the analysis form field is absent, is not JSON, is the JSON
\* text null, or is the JSON text of an object
baseRequest ==
  [method |-> "POST", formOk |-> TRUE, hasFile |-> TRUE, analysisStr |-> "object",
   analysis |-> NoAnalysis, doc |-> UnloadableDocument]
RenderRequests ==
  {[baseRequest EXCEPT !.method = m, !.formOk = ok, !.hasFile = hf, !.analysisStr = s] :
     m \in {"GET", "POST"}, ok \in BOOLEAN, hf \in BOOLEAN,
     s \in {"absent", "invalid", "null", "object"}}
    \cup {[baseRequest EXCEPT !.analysis = a, !.doc = d] :
            a \in Analyses, d \in Documents}

\* ----------------------------------------------------- the render handler
NoDocument == [loaded |-> FALSE, pages |-> <<>>]
NoBytes == [saved |-> FALSE, pages |-> <<>>]
NoRenderResponse ==
  [status |-> 0, headers |-> {}, body |-> "none", message |-> "", pdf |-> <<>>]

jsonResponse(code, msg) ==
  [status |-> code, headers |-> {}, body |-> "json", message |-> msg, pdf |-> <<>>]

RenderIdle ==
  /\ rpc = "idle" /\ rreq = baseRequest /\ analysis = NoAnalysis
  /\ originalPdf = NoDocument /\ coverPdf = NoDocument /\ mergedPdf = NoDocument
  /\ pdfBytes = NoBytes /\ rres = NoRenderResponse /\ rprev = NoRenderResponse

renderLocals == <<analysis, originalPdf, coverPdf, mergedPdf, pdfBytes>>

\* handler from its entry to the await of parseForm
RenderReceive ==
  /\ rpc = "idle"
  /\ \E r \in RenderRequests :
       /\ rreq' = r
       /\ IF r.method /= "POST"
          THEN rpc' = "done" /\ rres' = jsonResponse(405, "Method not allowed")
          ELSE rpc' = "parsing" /\ UNCHANGED rres
  /\ UNCHANGED <<rprev, renderLocals, deckVars, helperVars, storageVars, viewVars, hookVars, analyzeVars, keywordVars>>

\* a catch block below headers that were set before rendering started
renderFailed_headersSet ==
  /\ rpc' = "done"
  /\ rres' = [jsonResponse(500, "Failed to render PDF")
                EXCEPT !.headers = {"Content-Type", "Content-Disposition"}]

\* the response of the catch block
renderFailed ==
  /\ rpc' = "done"
  /\ rres' = jsonResponse(500, "Failed to render PDF")

\* a check that only asks for enough cards: analysis.cards.length < 3
cardsInvalid_tooFew(a) == ~a.hasCards \/ Len(a.cards) < 3

\* if (!analysis.cards || analysis.cards.length !== 3)
cardsInvalid(a) == ~a.hasCards \/ Len(a.cards) /= 3
\* if (!analysis.aura)
auraInvalid(a) == IsFalsyString(a.aura)

\* handler from the settling of parseForm, through the checks of the file
\* and the analysis, to the await of PDFDocument.load in renderMergedPdf
RenderValidate ==
  /\ rpc = "parsing"
  /\ IF ~rreq.formOk
     THEN renderFailed /\ UNCHANGED analysis
     ELSE IF ~rreq.hasFile
     THEN /\ rpc' = "done" /\ rres' = jsonResponse(400, "No PDF file provided")
          /\ UNCHANGED analysis
     ELSE IF rreq.analysisStr = "absent"
     THEN /\ rpc' = "done" /\ rres' = jsonResponse(400, "No analysis data provided")
          /\ UNCHANGED analysis
     ELSE IF rreq.analysisStr = "invalid"
     THEN /\ rpc' = "done" /\ rres' = jsonResponse(400, "Invalid analysis JSON")
          /\ UNCHANGED analysis
     ELSE IF rreq.analysisStr = "null"
     THEN renderFailed /\ UNCHANGED analysis
     ELSE /\ analysis' = rreq.analysis
          /\ IF cardsInvalid(rreq.analysis)
             THEN rpc' = "done" /\ rres' = jsonResponse(400, "Invalid analysis: missing cards")
             ELSE IF auraInvalid(rreq.analysis)
             THEN rpc' = "done" /\ rres' = jsonResponse(400, "Invalid analysis: missing aura")
             ELSE rpc' = "loading" /\ UNCHANGED rres
  /\ UNCHANGED <<rreq, rprev, originalPdf, coverPdf, mergedPdf, pdfBytes,
                 deckVars, helperVars, storageVars, viewVars, hookVars, analyzeVars, keywordVars>>

\* renderMergedPdf: PDFDocument.load settles; getPages()[0].getSize() throws
\* on a document without pages; createCoverPage is called
LoadOriginal ==
  /\ rpc = "loading"
  /\ IF ~rreq.doc.loadable
     THEN renderFailed /\ UNCHANGED originalPdf
     ELSE /\ originalPdf' = [loaded |-> TRUE, pages |-> rreq.doc.pages]
          /\ IF Len(rreq.doc.pages) = 0
             THEN renderFailed
             ELSE rpc' = "composing" /\ UNCHANGED rres
  /\ UNCHANGED <<rreq, rprev, analysis, coverPdf, mergedPdf, pdfBytes,
                 deckVars, helperVars, storageVars, viewVars, hookVars, analyzeVars, keywordVars>>

\* a cover that is left at the composer's default size
firstPageSize_default(doc) == <<DEFAULT_PAGE_WIDTH, DEFAULT_PAGE_HEIGHT>>

\* const { width, height } = originalPdf.getPages()[0].getSize()
firstPageSize(doc) == <<doc.pages[1].width, doc.pages[1].height>>

\* renderMergedPdf: createCoverPage(analysis, width, height) settles, with the
\* size of the original's first page; PDFDocument.create is called
CreateCover ==
  /\ rpc = "composing"
  /\ IF coverThrows(analysis)
     THEN renderFailed /\ UNCHANGED <<coverPdf, mergedPdf>>
     ELSE /\ coverPdf' = [loaded |-> TRUE,
                          pages |-> <<createCoverPage(analysis,
                                                      firstPageSize(originalPdf)[1],
                                                      firstPageSize(originalPdf)[2])>>]
          /\ mergedPdf' = [loaded |-> TRUE, pages |-> <<>>]
          /\ rpc' = "copyingCover" /\ UNCHANGED rres
  /\ UNCHANGED <<rreq, rprev, analysis, originalPdf, pdfBytes,
                 deckVars, helperVars, storageVars, viewVars, hookVars, analyzeVars, keywordVars>>

\* mergedPdf.copyPages(doc, indices): the pages of doc at the indices, which
\* count from 0, in the order of the indices
copyPages(doc, indices) == [k \in 1..Len(indices) |-> doc.pages[indices[k] + 1]]
\* page indices that stop one short of the last page
getPageIndices_dropLast(doc) == [k \in 1..(Len(doc.pages) - 1) |-> k - 1]

\* doc.getPageIndices()
getPageIndices(doc) == [k \in 1..Len(doc.pages) |-> k - 1]

\* renderMergedPdf: copyPages(coverPdf, [0]) settles and the cover is added
CopyCover ==
  /\ rpc = "copyingCover"
  /\ mergedPdf' = [mergedPdf EXCEPT !.pages = Append(@, copyPages(coverPdf, <<0>>)[1])]
  /\ rpc' = "copyingPages"
  /\ UNCHANGED <<rreq, rprev, rres, analysis, originalPdf, coverPdf, pdfBytes,
                 deckVars, helperVars, storageVars, viewVars, hookVars, analyzeVars, keywordVars>>

\* renderMergedPdf: copyPages(originalPdf, pageIndices) settles and every
\* copied page is added in turn; save is called.  pdf-lib may reject instead
\* (a page object it cannot embed), which lands in the handler's catch block
CopyOriginal ==
  /\ rpc = "copyingPages"
  /\ \E rejected \in BOOLEAN :
       IF rejected
       THEN renderFailed /\ UNCHANGED mergedPdf
       ELSE /\ mergedPdf' = [mergedPdf EXCEPT
                               !.pages = @ \o copyPages(originalPdf, getPageIndices(originalPdf))]
            /\ rpc' = "saving" /\ UNCHANGED rres
  /\ UNCHANGED <<rreq, rprev, analysis, originalPdf, coverPdf, pdfBytes,
                 deckVars, helperVars, storageVars, viewVars, hookVars, analyzeVars, keywordVars>>

\* renderMergedPdf: save settles and the buffer is returned, or save rejects
Save ==
  /\ rpc = "saving"
  /\ \E rejected \in BOOLEAN :
       IF rejected
       THEN renderFailed /\ UNCHANGED pdfBytes
       ELSE /\ pdfBytes' = [saved |-> TRUE, pages |-> mergedPdf.pages]
            /\ rpc' = "sending" /\ UNCHANGED rres
  /\ UNCHANGED <<rreq, rprev, analysis, originalPdf, coverPdf, mergedPdf,
                 deckVars, helperVars, storageVars, viewVars, hookVars, analyzeVars, keywordVars>>

\* handler after renderMergedPdf resolved: the three headers and the body
Send ==
  /\ rpc = "sending"
  /\ rres' = [status |-> 200,
              headers |-> {"Content-Type", "Content-Disposition", "Content-Length"},
              body |-> "pdf", message |-> "", pdf |-> pdfBytes.pages]
  /\ rpc' = "done"
  /\ UNCHANGED <<rreq, rprev, renderLocals, deckVars, helperVars, storageVars, viewVars, hookVars, analyzeVars, keywordVars>>

\* ------------------------------------------------ extractKeywords on its own
\* "apple", "Banana!", "2024", "1999", "page" (a stop word), "api" (short)
KeywordPool ==
  <<<<97, 112, 112, 108, 101>>,
    <<66, 97, 110, 97, 110, 97, 33>>,
    <<50, 48, 50, 52>>,
    <<49, 57, 57, 57>>,
    <<112, 97, 103, 101>>,
    <<97, 112, 105>>>>

KeywordTexts == {joinWords(KeywordPool, idx) : idx \in IndexSeqs(Len(KeywordPool), MaxWords)}
KeywordLimits == {1, 2, DEFAULT_MAX_KEYWORDS}

KeywordIdle == kpc = "idle" /\ ktext = <<>> /\ kmax = DEFAULT_MAX_KEYWORDS /\ kresult = <<>>

\* a caller hands a text and a limit to extractKeywords
KeywordsCall ==
  /\ kpc = "idle"
  /\ kpc' = "called"
  /\ ktext' \in KeywordTexts
  /\ kmax' \in KeywordLimits
  /\ kresult' = <<>>
  /\ UNCHANGED <<deckVars, helperVars, storageVars, viewVars, hookVars, analyzeVars, renderVars>>

\* extractKeywords returns
KeywordsReturn ==
  /\ kpc = "called"
  /\ kpc' = "returned"
  /\ kresult' = extractKeywords(ktext, kmax)
  /\ UNCHANGED <<ktext, kmax, deckVars, helperVars, storageVars, viewVars, hookVars, analyzeVars, renderVars>>

\* --------------------------------------------- a Reading sent back to render
\* the UTF-16 code units of the strings of the decks; a property that is
\* undefined is left out by JSON.stringify and reads as undefined after
\* JSON.parse
codeUnits(s) ==
  CASE s = "The Procrastinator" ->
         <<84, 104, 101, 32, 80, 114, 111, 99, 114, 97, 115, 116, 105, 110, 97, 116,
         111, 114>>
    [] s = "This document began its journey in the depths of someone's 'to-do later' pile. It has known neglect, yet persevered." ->
         <<84, 104, 105, 115, 32, 100, 111, 99, 117, 109, 101, 110, 116, 32, 98, 101,
         103, 97, 110, 32, 105, 116, 115, 32, 106, 111, 117, 114, 110, 101,
         121, 32, 105, 110, 32, 116, 104, 101, 32, 100, 101, 112, 116, 104,
         115, 32, 111, 102, 32, 115, 111, 109, 101, 111, 110, 101, 39, 115, 32,
         39, 116, 111, 45, 100, 111, 32, 108, 97, 116, 101, 114, 39, 32, 112,
         105, 108, 101, 46, 32, 73, 116, 32, 104, 97, 115, 32, 107, 110, 111,
         119, 110, 32, 110, 101, 103, 108, 101, 99, 116, 44, 32, 121, 101, 116,
         32, 112, 101, 114, 115, 101, 118, 101, 114, 101, 100, 46>>
    [] s = "The Midnight Oil" ->
         <<84, 104, 101, 32, 77, 105, 100, 110, 105, 103, 104, 116, 32, 79, 105, 108>>
    [] s = "Born from late-night inspiration and questionable coffee decisions. This document carries the energy of deadlines past." ->
         <<66, 111, 114, 110, 32, 102, 114, 111, 109, 32, 108, 97, 116, 101, 45, 110,
         105, 103, 104, 116, 32, 105, 110, 115, 112, 105, 114, 97, 116, 105,
         111, 110, 32, 97, 110, 100, 32, 113, 117, 101, 115, 116, 105, 111,
         110, 97, 98, 108, 101, 32, 99, 111, 102, 102, 101, 101, 32, 100, 101,
         99, 105, 115, 105, 111, 110, 115, 46, 32, 84, 104, 105, 115, 32, 100,
         111, 99, 117, 109, 101, 110, 116, 32, 99, 97, 114, 114, 105, 101, 115,
         32, 116, 104, 101, 32, 101, 110, 101, 114, 103, 121, 32, 111, 102, 32,
         100, 101, 97, 100, 108, 105, 110, 101, 115, 32, 112, 97, 115, 116, 46>>
    [] s = "The Copy-Paste Sage" ->
         <<84, 104, 101, 32, 67, 111, 112, 121, 45, 80, 97, 115, 116, 101, 32, 83, 97,
         103, 101>>
    [] s = "Much wisdom here was borrowed from documents that came before. Standing on the shoulders of templates." ->
         <<77, 117, 99, 104, 32, 119, 105, 115, 100, 111, 109, 32, 104, 101, 114, 101,
         32, 119, 97, 115, 32, 98, 111, 114, 114, 111, 119, 101, 100, 32, 102,
         114, 111, 109, 32, 100, 111, 99, 117, 109, 101, 110, 116, 115, 32,
         116, 104, 97, 116, 32, 99, 97, 109, 101, 32, 98, 101, 102, 111, 114,
         101, 46, 32, 83, 116, 97, 110, 100, 105, 110, 103, 32, 111, 110, 32,
         116, 104, 101, 32, 115, 104, 111, 117, 108, 100, 101, 114, 115, 32,
         111, 102, 32, 116, 101, 109, 112, 108, 97, 116, 101, 115, 46>>
    [] s = "The Revision Maze" ->
         <<84, 104, 101, 32, 82, 101, 118, 105, 115, 105, 111, 110, 32, 77, 97, 122,
         101>>
    [] s = "This document has seen many versions, each one slightly different, none quite right. Version 17 remembers." ->
         <<84, 104, 105, 115, 32, 100, 111, 99, 117, 109, 101, 110, 116, 32, 104, 97,
         115, 32, 115, 101, 101, 110, 32, 109, 97, 110, 121, 32, 118, 101, 114,
         115, 105, 111, 110, 115, 44, 32, 101, 97, 99, 104, 32, 111, 110, 101,
         32, 115, 108, 105, 103, 104, 116, 108, 121, 32, 100, 105, 102, 102,
         101, 114, 101, 110, 116, 44, 32, 110, 111, 110, 101, 32, 113, 117,
         105, 116, 101, 32, 114, 105, 103, 104, 116, 46, 32, 86, 101, 114, 115,
         105, 111, 110, 32, 49, 55, 32, 114, 101, 109, 101, 109, 98, 101, 114,
         115, 46>>
    [] s = "The Abandoned Draft" ->
         <<84, 104, 101, 32, 65, 98, 97, 110, 100, 111, 110, 101, 100, 32, 68, 114, 97,
         102, 116>>
    [] s = "Once begun with great enthusiasm, then forgotten for weeks. Its early paragraphs still echo with optimism." ->
         <<79, 110, 99, 101, 32, 98, 101, 103, 117, 110, 32, 119, 105, 116, 104, 32,
         103, 114, 101, 97, 116, 32, 101, 110, 116, 104, 117, 115, 105, 97,
         115, 109, 44, 32, 116, 104, 101, 110, 32, 102, 111, 114, 103, 111,
         116, 116, 101, 110, 32, 102, 111, 114, 32, 119, 101, 101, 107, 115,
         46, 32, 73, 116, 115, 32, 101, 97, 114, 108, 121, 32, 112, 97, 114,
         97, 103, 114, 97, 112, 104, 115, 32, 115, 116, 105, 108, 108, 32, 101,
         99, 104, 111, 32, 119, 105, 116, 104, 32, 111, 112, 116, 105, 109,
         105, 115, 109, 46>>
    [] s = "The Meeting Minutes" ->
         <<84, 104, 101, 32, 77, 101, 101, 116, 105, 110, 103, 32, 77, 105, 110, 117,
         116, 101, 115>>
    [] s = "This document was birthed in a conference room. It carries the collective indecision of many voices." ->
         <<84, 104, 105, 115, 32, 100, 111, 99, 117, 109, 101, 110, 116, 32, 119, 97,
         115, 32, 98, 105, 114, 116, 104, 101, 100, 32, 105, 110, 32, 97, 32,
         99, 111, 110, 102, 101, 114, 101, 110, 99, 101, 32, 114, 111, 111,
         109, 46, 32, 73, 116, 32, 99, 97, 114, 114, 105, 101, 115, 32, 116,
         104, 101, 32, 99, 111, 108, 108, 101, 99, 116, 105, 118, 101, 32, 105,
         110, 100, 101, 99, 105, 115, 105, 111, 110, 32, 111, 102, 32, 109, 97,
         110, 121, 32, 118, 111, 105, 99, 101, 115, 46>>
    [] s = "The Inherited Legacy" ->
         <<84, 104, 101, 32, 73, 110, 104, 101, 114, 105, 116, 101, 100, 32, 76, 101,
         103, 97, 99, 121>>
    [] s = "Someone else started this. The original author has moved on, leaving only cryptic comments behind." ->
         <<83, 111, 109, 101, 111, 110, 101, 32, 101, 108, 115, 101, 32, 115, 116, 97,
         114, 116, 101, 100, 32, 116, 104, 105, 115, 46, 32, 84, 104, 101, 32,
         111, 114, 105, 103, 105, 110, 97, 108, 32, 97, 117, 116, 104, 111,
         114, 32, 104, 97, 115, 32, 109, 111, 118, 101, 100, 32, 111, 110, 44,
         32, 108, 101, 97, 118, 105, 110, 103, 32, 111, 110, 108, 121, 32, 99,
         114, 121, 112, 116, 105, 99, 32, 99, 111, 109, 109, 101, 110, 116,
         115, 32, 98, 101, 104, 105, 110, 100, 46>>
    [] s = "The Scope Creeper" ->
         <<84, 104, 101, 32, 83, 99, 111, 112, 101, 32, 67, 114, 101, 101, 112, 101,
         114>>
    [] s = "What began as a simple task grew into something far more complex. Feature creep left its mark." ->
         <<87, 104, 97, 116, 32, 98, 101, 103, 97, 110, 32, 97, 115, 32, 97, 32, 115,
         105, 109, 112, 108, 101, 32, 116, 97, 115, 107, 32, 103, 114, 101,
         119, 32, 105, 110, 116, 111, 32, 115, 111, 109, 101, 116, 104, 105,
         110, 103, 32, 102, 97, 114, 32, 109, 111, 114, 101, 32, 99, 111, 109,
         112, 108, 101, 120, 46, 32, 70, 101, 97, 116, 117, 114, 101, 32, 99,
         114, 101, 101, 112, 32, 108, 101, 102, 116, 32, 105, 116, 115, 32,
         109, 97, 114, 107, 46>>
    [] s = "The Attention Seeker" ->
         <<84, 104, 101, 32, 65, 116, 116, 101, 110, 116, 105, 111, 110, 32, 83, 101,
         101, 107, 101, 114>>
    [] s = "Right now, this document desperately wants to be read. It yearns for someone to actually make it to page 2." ->
         <<82, 105, 103, 104, 116, 32, 110, 111, 119, 44, 32, 116, 104, 105, 115, 32,
         100, 111, 99, 117, 109, 101, 110, 116, 32, 100, 101, 115, 112, 101,
         114, 97, 116, 101, 108, 121, 32, 119, 97, 110, 116, 115, 32, 116, 111,
         32, 98, 101, 32, 114, 101, 97, 100, 46, 32, 73, 116, 32, 121, 101, 97,
         114, 110, 115, 32, 102, 111, 114, 32, 115, 111, 109, 101, 111, 110,
         101, 32, 116, 111, 32, 97, 99, 116, 117, 97, 108, 108, 121, 32, 109,
         97, 107, 101, 32, 105, 116, 32, 116, 111, 32, 112, 97, 103, 101, 32,
         50, 46>>
    [] s = "The Hopeful Attachment" ->
         <<84, 104, 101, 32, 72, 111, 112, 101, 102, 117, 108, 32, 65, 116, 116, 97, 99,
         104, 109, 101, 110, 116>>
    [] s = "Currently sitting in an inbox, waiting to be opened. It believes today could be the day." ->
         <<67, 117, 114, 114, 101, 110, 116, 108, 121, 32, 115, 105, 116, 116, 105, 110,
         103, 32, 105, 110, 32, 97, 110, 32, 105, 110, 98, 111, 120, 44, 32,
         119, 97, 105, 116, 105, 110, 103, 32, 116, 111, 32, 98, 101, 32, 111,
         112, 101, 110, 101, 100, 46, 32, 73, 116, 32, 98, 101, 108, 105, 101,
         118, 101, 115, 32, 116, 111, 100, 97, 121, 32, 99, 111, 117, 108, 100,
         32, 98, 101, 32, 116, 104, 101, 32, 100, 97, 121, 46>>
    [] s = "The Polished Facade" ->
         <<84, 104, 101, 32, 80, 111, 108, 105, 115, 104, 101, 100, 32, 70, 97, 99, 97,
         100, 101>>
    [] s = "Presenting its best self with clean formatting and professional fonts. But we know the tracked changes it hides." ->
         <<80, 114, 101, 115, 101, 110, 116, 105, 110, 103, 32, 105, 116, 115, 32, 98,
         101, 115, 116, 32, 115, 101, 108, 102, 32, 119, 105, 116, 104, 32, 99,
         108, 101, 97, 110, 32, 102, 111, 114, 109, 97, 116, 116, 105, 110,
         103, 32, 97, 110, 100, 32, 112, 114, 111, 102, 101, 115, 115, 105,
         111, 110, 97, 108, 32, 102, 111, 110, 116, 115, 46, 32, 66, 117, 116,
         32, 119, 101, 32, 107, 110, 111, 119, 32, 116, 104, 101, 32, 116, 114,
         97, 99, 107, 101, 100, 32, 99, 104, 97, 110, 103, 101, 115, 32, 105,
         116, 32, 104, 105, 100, 101, 115, 46>>
    [] s = "The Meeting Survivor" ->
         <<84, 104, 101, 32, 77, 101, 101, 116, 105, 110, 103, 32, 83, 117, 114, 118,
         105, 118, 111, 114>>
    [] s = "This document has been projected onto screens and scrutinized by many. It seeks validation." ->
         <<84, 104, 105, 115, 32, 100, 111, 99, 117, 109, 101, 110, 116, 32, 104, 97,
         115, 32, 98, 101, 101, 110, 32, 112, 114, 111, 106, 101, 99, 116, 101,
         100, 32, 111, 110, 116, 111, 32, 115, 99, 114, 101, 101, 110, 115, 32,
         97, 110, 100, 32, 115, 99, 114, 117, 116, 105, 110, 105, 122, 101,
         100, 32, 98, 121, 32, 109, 97, 110, 121, 46, 32, 73, 116, 32, 115,
         101, 101, 107, 115, 32, 118, 97, 108, 105, 100, 97, 116, 105, 111,
         110, 46>>
    [] s = "The Urgent Flag" ->
         <<84, 104, 101, 32, 85, 114, 103, 101, 110, 116, 32, 70, 108, 97, 103>>
    [] s = "Marked as important! High priority! But is anyone actually reading it? The document wonders." ->
         <<77, 97, 114, 107, 101, 100, 32, 97, 115, 32, 105, 109, 112, 111, 114, 116,
         97, 110, 116, 33, 32, 72, 105, 103, 104, 32, 112, 114, 105, 111, 114,
         105, 116, 121, 33, 32, 66, 117, 116, 32, 105, 115, 32, 97, 110, 121,
         111, 110, 101, 32, 97, 99, 116, 117, 97, 108, 108, 121, 32, 114, 101,
         97, 100, 105, 110, 103, 32, 105, 116, 63, 32, 84, 104, 101, 32, 100,
         111, 99, 117, 109, 101, 110, 116, 32, 119, 111, 110, 100, 101, 114,
         115, 46>>
    [] s = "The Circling Approval" ->
         <<84, 104, 101, 32, 67, 105, 114, 99, 108, 105, 110, 103, 32, 65, 112, 112,
         114, 111, 118, 97, 108>>
    [] s = "Currently making rounds through the approval chain. Each signature brings it closer to its destiny." ->
         <<67, 117, 114, 114, 101, 110, 116, 108, 121, 32, 109, 97, 107, 105, 110, 103,
         32, 114, 111, 117, 110, 100, 115, 32, 116, 104, 114, 111, 117, 103,
         104, 32, 116, 104, 101, 32, 97, 112, 112, 114, 111, 118, 97, 108, 32,
         99, 104, 97, 105, 110, 46, 32, 69, 97, 99, 104, 32, 115, 105, 103,
         110, 97, 116, 117, 114, 101, 32, 98, 114, 105, 110, 103, 115, 32, 105,
         116, 32, 99, 108, 111, 115, 101, 114, 32, 116, 111, 32, 105, 116, 115,
         32, 100, 101, 115, 116, 105, 110, 121, 46>>
    [] s = "The Open Tab" ->
         <<84, 104, 101, 32, 79, 112, 101, 110, 32, 84, 97, 98>>
    [] s = "Living in a browser tab among dozens of others. Occasionally glimpsed but never fully absorbed." ->
         <<76, 105, 118, 105, 110, 103, 32, 105, 110, 32, 97, 32, 98, 114, 111, 119,
         115, 101, 114, 32, 116, 97, 98, 32, 97, 109, 111, 110, 103, 32, 100,
         111, 122, 101, 110, 115, 32, 111, 102, 32, 111, 116, 104, 101, 114,
         115, 46, 32, 79, 99, 99, 97, 115, 105, 111, 110, 97, 108, 108, 121,
         32, 103, 108, 105, 109, 112, 115, 101, 100, 32, 98, 117, 116, 32, 110,
         101, 118, 101, 114, 32, 102, 117, 108, 108, 121, 32, 97, 98, 115, 111,
         114, 98, 101, 100, 46>>
    [] s = "The Desktop Dweller" ->
         <<84, 104, 101, 32, 68, 101, 115, 107, 116, 111, 112, 32, 68, 119, 101, 108,
         108, 101, 114>>
    [] s = "Saved to the desktop for \"quick access.\" Now buried under 47 other files with similar intentions." ->
         <<83, 97, 118, 101, 100, 32, 116, 111, 32, 116, 104, 101, 32, 100, 101, 115,
         107, 116, 111, 112, 32, 102, 111, 114, 32, 34, 113, 117, 105, 99, 107,
         32, 97, 99, 99, 101, 115, 115, 46, 34, 32, 78, 111, 119, 32, 98, 117,
         114, 105, 101, 100, 32, 117, 110, 100, 101, 114, 32, 52, 55, 32, 111,
         116, 104, 101, 114, 32, 102, 105, 108, 101, 115, 32, 119, 105, 116,
         104, 32, 115, 105, 109, 105, 108, 97, 114, 32, 105, 110, 116, 101,
         110, 116, 105, 111, 110, 115, 46>>
    [] s = "The Forgotten Archive" ->
         <<84, 104, 101, 32, 70, 111, 114, 103, 111, 116, 116, 101, 110, 32, 65, 114,
         99, 104, 105, 118, 101>>
    [] s = "Beware! This document's destiny leads to a folder called 'Old Stuff' where it will languish for eternity." ->
         <<66, 101, 119, 97, 114, 101, 33, 32, 84, 104, 105, 115, 32, 100, 111, 99, 117,
         109, 101, 110, 116, 39, 115, 32, 100, 101, 115, 116, 105, 110, 121,
         32, 108, 101, 97, 100, 115, 32, 116, 111, 32, 97, 32, 102, 111, 108,
         100, 101, 114, 32, 99, 97, 108, 108, 101, 100, 32, 39, 79, 108, 100,
         32, 83, 116, 117, 102, 102, 39, 32, 119, 104, 101, 114, 101, 32, 105,
         116, 32, 119, 105, 108, 108, 32, 108, 97, 110, 103, 117, 105, 115,
         104, 32, 102, 111, 114, 32, 101, 116, 101, 114, 110, 105, 116, 121,
         46>>
    [] s = "The Scope Creep" ->
         <<84, 104, 101, 32, 83, 99, 111, 112, 101, 32, 67, 114, 101, 101, 112>>
    [] s = "Warning: Additional requirements approach. This document will grow to twice its intended size." ->
         <<87, 97, 114, 110, 105, 110, 103, 58, 32, 65, 100, 100, 105, 116, 105, 111,
         110, 97, 108, 32, 114, 101, 113, 117, 105, 114, 101, 109, 101, 110,
         116, 115, 32, 97, 112, 112, 114, 111, 97, 99, 104, 46, 32, 84, 104,
         105, 115, 32, 100, 111, 99, 117, 109, 101, 110, 116, 32, 119, 105,
         108, 108, 32, 103, 114, 111, 119, 32, 116, 111, 32, 116, 119, 105, 99,
         101, 32, 105, 116, 115, 32, 105, 110, 116, 101, 110, 100, 101, 100,
         32, 115, 105, 122, 101, 46>>
    [] s = "The Reply All Catastrophe" ->
         <<84, 104, 101, 32, 82, 101, 112, 108, 121, 32, 65, 108, 108, 32, 67, 97, 116,
         97, 115, 116, 114, 111, 112, 104, 101>>
    [] s = "Danger ahead! This document may be accidentally sent to people who should never see it." ->
         <<68, 97, 110, 103, 101, 114, 32, 97, 104, 101, 97, 100, 33, 32, 84, 104, 105,
         115, 32, 100, 111, 99, 117, 109, 101, 110, 116, 32, 109, 97, 121, 32,
         98, 101, 32, 97, 99, 99, 105, 100, 101, 110, 116, 97, 108, 108, 121,
         32, 115, 101, 110, 116, 32, 116, 111, 32, 112, 101, 111, 112, 108,
         101, 32, 119, 104, 111, 32, 115, 104, 111, 117, 108, 100, 32, 110,
         101, 118, 101, 114, 32, 115, 101, 101, 32, 105, 116, 46>>
    [] s = "The Printer Nemesis" ->
         <<84, 104, 101, 32, 80, 114, 105, 110, 116, 101, 114, 32, 78, 101, 109, 101,
         115, 105, 115>>
    [] s = "A formatting disaster awaits. Margins will shift, fonts will change, and someone will say \"it looked fine on my screen.\"" ->
         <<65, 32, 102, 111, 114, 109, 97, 116, 116, 105, 110, 103, 32, 100, 105, 115,
         97, 115, 116, 101, 114, 32, 97, 119, 97, 105, 116, 115, 46, 32, 77,
         97, 114, 103, 105, 110, 115, 32, 119, 105, 108, 108, 32, 115, 104,
         105, 102, 116, 44, 32, 102, 111, 110, 116, 115, 32, 119, 105, 108,
         108, 32, 99, 104, 97, 110, 103, 101, 44, 32, 97, 110, 100, 32, 115,
         111, 109, 101, 111, 110, 101, 32, 119, 105, 108, 108, 32, 115, 97,
         121, 32, 34, 105, 116, 32, 108, 111, 111, 107, 101, 100, 32, 102, 105,
         110, 101, 32, 111, 110, 32, 109, 121, 32, 115, 99, 114, 101, 101, 110,
         46, 34>>
    [] s = "The Endless Revision" ->
         <<84, 104, 101, 32, 69, 110, 100, 108, 101, 115, 115, 32, 82, 101, 118, 105,
         115, 105, 111, 110>>
    [] s = "More feedback is coming. Version numbers will climb. The \"final\" version will spawn many children." ->
         <<77, 111, 114, 101, 32, 102, 101, 101, 100, 98, 97, 99, 107, 32, 105, 115, 32,
         99, 111, 109, 105, 110, 103, 46, 32, 86, 101, 114, 115, 105, 111, 110,
         32, 110, 117, 109, 98, 101, 114, 115, 32, 119, 105, 108, 108, 32, 99,
         108, 105, 109, 98, 46, 32, 84, 104, 101, 32, 34, 102, 105, 110, 97,
         108, 34, 32, 118, 101, 114, 115, 105, 111, 110, 32, 119, 105, 108,
         108, 32, 115, 112, 97, 119, 110, 32, 109, 97, 110, 121, 32, 99, 104,
         105, 108, 100, 114, 101, 110, 46>>
    [] s = "The Deadline Demon" ->
         <<84, 104, 101, 32, 68, 101, 97, 100, 108, 105, 110, 101, 32, 68, 101, 109,
         111, 110>>
    [] s = "A hard deadline approaches. Corners will be cut. Sleep will be lost. The document will ship anyway." ->
         <<65, 32, 104, 97, 114, 100, 32, 100, 101, 97, 100, 108, 105, 110, 101, 32, 97,
         112, 112, 114, 111, 97, 99, 104, 101, 115, 46, 32, 67, 111, 114, 110,
         101, 114, 115, 32, 119, 105, 108, 108, 32, 98, 101, 32, 99, 117, 116,
         46, 32, 83, 108, 101, 101, 112, 32, 119, 105, 108, 108, 32, 98, 101,
         32, 108, 111, 115, 116, 46, 32, 84, 104, 101, 32, 100, 111, 99, 117,
         109, 101, 110, 116, 32, 119, 105, 108, 108, 32, 115, 104, 105, 112,
         32, 97, 110, 121, 119, 97, 121, 46>>
    [] s = "The Silent Archive" ->
         <<84, 104, 101, 32, 83, 105, 108, 101, 110, 116, 32, 65, 114, 99, 104, 105,
         118, 101>>
    [] s = "After much fanfare, this document will be filed away and never opened again. Such is the cycle." ->
         <<65, 102, 116, 101, 114, 32, 109, 117, 99, 104, 32, 102, 97, 110, 102, 97,
         114, 101, 44, 32, 116, 104, 105, 115, 32, 100, 111, 99, 117, 109, 101,
         110, 116, 32, 119, 105, 108, 108, 32, 98, 101, 32, 102, 105, 108, 101,
         100, 32, 97, 119, 97, 121, 32, 97, 110, 100, 32, 110, 101, 118, 101,
         114, 32, 111, 112, 101, 110, 101, 100, 32, 97, 103, 97, 105, 110, 46,
         32, 83, 117, 99, 104, 32, 105, 115, 32, 116, 104, 101, 32, 99, 121,
         99, 108, 101, 46>>
    [] s = "The Rebirth" ->
         <<84, 104, 101, 32, 82, 101, 98, 105, 114, 116, 104>>
    [] s = "This document will be repurposed. Its content will live on in presentations, emails, and other forms." ->
         <<84, 104, 105, 115, 32, 100, 111, 99, 117, 109, 101, 110, 116, 32, 119, 105,
         108, 108, 32, 98, 101, 32, 114, 101, 112, 117, 114, 112, 111, 115,
         101, 100, 46, 32, 73, 116, 115, 32, 99, 111, 110, 116, 101, 110, 116,
         32, 119, 105, 108, 108, 32, 108, 105, 118, 101, 32, 111, 110, 32, 105,
         110, 32, 112, 114, 101, 115, 101, 110, 116, 97, 116, 105, 111, 110,
         115, 44, 32, 101, 109, 97, 105, 108, 115, 44, 32, 97, 110, 100, 32,
         111, 116, 104, 101, 114, 32, 102, 111, 114, 109, 115, 46>>
    [] s = "Focus Goblin" ->
         <<70, 111, 99, 117, 115, 32, 71, 111, 98, 108, 105, 110>>
    [] s = "Highly concentrated content, dense with purpose" ->
         <<72, 105, 103, 104, 108, 121, 32, 99, 111, 110, 99, 101, 110, 116, 114, 97,
         116, 101, 100, 32, 99, 111, 110, 116, 101, 110, 116, 44, 32, 100, 101,
         110, 115, 101, 32, 119, 105, 116, 104, 32, 112, 117, 114, 112, 111,
         115, 101>>
    [] s = "Deadline Phantom" ->
         <<68, 101, 97, 100, 108, 105, 110, 101, 32, 80, 104, 97, 110, 116, 111, 109>>
    [] s = "Created under pressure, radiates urgency" ->
         <<67, 114, 101, 97, 116, 101, 100, 32, 117, 110, 100, 101, 114, 32, 112, 114,
         101, 115, 115, 117, 114, 101, 44, 32, 114, 97, 100, 105, 97, 116, 101,
         115, 32, 117, 114, 103, 101, 110, 99, 121>>
    [] s = "Meeting Magnet" ->
         <<77, 101, 101, 116, 105, 110, 103, 32, 77, 97, 103, 110, 101, 116>>
    [] s = "Will spawn many discussions and calendar invites" ->
         <<87, 105, 108, 108, 32, 115, 112, 97, 119, 110, 32, 109, 97, 110, 121, 32,
         100, 105, 115, 99, 117, 115, 115, 105, 111, 110, 115, 32, 97, 110,
         100, 32, 99, 97, 108, 101, 110, 100, 97, 114, 32, 105, 110, 118, 105,
         116, 101, 115>>
    [] s = "Inbox Specter" ->
         <<73, 110, 98, 111, 120, 32, 83, 112, 101, 99, 116, 101, 114>>
    [] s = "Destined to haunt email threads" ->
         <<68, 101, 115, 116, 105, 110, 101, 100, 32, 116, 111, 32, 104, 97, 117, 110,
         116, 32, 101, 109, 97, 105, 108, 32, 116, 104, 114, 101, 97, 100, 115>>
    [] s = "Revision Wraith" ->
         <<82, 101, 118, 105, 115, 105, 111, 110, 32, 87, 114, 97, 105, 116, 104>>
    [] s = "Will undergo many transformations" ->
         <<87, 105, 108, 108, 32, 117, 110, 100, 101, 114, 103, 111, 32, 109, 97, 110,
         121, 32, 116, 114, 97, 110, 115, 102, 111, 114, 109, 97, 116, 105,
         111, 110, 115>>
    [] s = "Approval Seeker" ->
         <<65, 112, 112, 114, 111, 118, 97, 108, 32, 83, 101, 101, 107, 101, 114>>
    [] s = "Craves validation from stakeholders" ->
         <<67, 114, 97, 118, 101, 115, 32, 118, 97, 108, 105, 100, 97, 116, 105, 111,
         110, 32, 102, 114, 111, 109, 32, 115, 116, 97, 107, 101, 104, 111,
         108, 100, 101, 114, 115>>
    [] s = "Scope Creeper" ->
         <<83, 99, 111, 112, 101, 32, 67, 114, 101, 101, 112, 101, 114>>
    [] s = "Tends to expand beyond original boundaries" ->
         <<84, 101, 110, 100, 115, 32, 116, 111, 32, 101, 120, 112, 97, 110, 100, 32,
         98, 101, 121, 111, 110, 100, 32, 111, 114, 105, 103, 105, 110, 97,
         108, 32, 98, 111, 117, 110, 100, 97, 114, 105, 101, 115>>
    [] s = "Format Warrior" ->
         <<70, 111, 114, 109, 97, 116, 32, 87, 97, 114, 114, 105, 111, 114>>
    [] s = "Fights valiantly against inconsistent styling" ->
         <<70, 105, 103, 104, 116, 115, 32, 118, 97, 108, 105, 97, 110, 116, 108, 121,
         32, 97, 103, 97, 105, 110, 115, 116, 32, 105, 110, 99, 111, 110, 115,
         105, 115, 116, 101, 110, 116, 32, 115, 116, 121, 108, 105, 110, 103>>
    [] s = "Archive Wanderer" ->
         <<65, 114, 99, 104, 105, 118, 101, 32, 87, 97, 110, 100, 101, 114, 101, 114>>
    [] s = "Seeks a final resting place in the file system" ->
         <<83, 101, 101, 107, 115, 32, 97, 32, 102, 105, 110, 97, 108, 32, 114, 101,
         115, 116, 105, 110, 103, 32, 112, 108, 97, 99, 101, 32, 105, 110, 32,
         116, 104, 101, 32, 102, 105, 108, 101, 32, 115, 121, 115, 116, 101,
         109>>
    [] s = "Tab Haunter" ->
         <<84, 97, 98, 32, 72, 97, 117, 110, 116, 101, 114>>
    [] s = "Will live in browser tabs indefinitely" ->
         <<87, 105, 108, 108, 32, 108, 105, 118, 101, 32, 105, 110, 32, 98, 114, 111,
         119, 115, 101, 114, 32, 116, 97, 98, 115, 32, 105, 110, 100, 101, 102,
         105, 110, 105, 116, 101, 108, 121>>
    [] s = "Certified Chaotic Neutral" ->
         <<67, 101, 114, 116, 105, 102, 105, 101, 100, 32, 67, 104, 97, 111, 116, 105,
         99, 32, 78, 101, 117, 116, 114, 97, 108>>
    [] s = "Professionally Procrastinated" ->
         <<80, 114, 111, 102, 101, 115, 115, 105, 111, 110, 97, 108, 108, 121, 32, 80,
         114, 111, 99, 114, 97, 115, 116, 105, 110, 97, 116, 101, 100>>
    [] s = "Officially Overthought" ->
         <<79, 102, 102, 105, 99, 105, 97, 108, 108, 121, 32, 79, 118, 101, 114, 116,
         104, 111, 117, 103, 104, 116>>
    [] s = "Beautifully Bureaucratic" ->
         <<66, 101, 97, 117, 116, 105, 102, 117, 108, 108, 121, 32, 66, 117, 114, 101,
         97, 117, 99, 114, 97, 116, 105, 99>>
    [] s = "Delightfully Disorganized" ->
         <<68, 101, 108, 105, 103, 104, 116, 102, 117, 108, 108, 121, 32, 68, 105, 115,
         111, 114, 103, 97, 110, 105, 122, 101, 100>>
    [] s = "Strategically Ambiguous" ->
         <<83, 116, 114, 97, 116, 101, 103, 105, 99, 97, 108, 108, 121, 32, 65, 109, 98,
         105, 103, 117, 111, 117, 115>>
    [] s = "Carefully Cluttered" ->
         <<67, 97, 114, 101, 102, 117, 108, 108, 121, 32, 67, 108, 117, 116, 116, 101,
         114, 101, 100>>
    [] s = "Magnificently Meandering" ->
         <<77, 97, 103, 110, 105, 102, 105, 99, 101, 110, 116, 108, 121, 32, 77, 101,
         97, 110, 100, 101, 114, 105, 110, 103>>
    [] s = "Perfectly Pending" ->
         <<80, 101, 114, 102, 101, 99, 116, 108, 121, 32, 80, 101, 110, 100, 105, 110,
         103>>
    [] s = "Blissfully Bloated" ->
         <<66, 108, 105, 115, 115, 102, 117, 108, 108, 121, 32, 66, 108, 111, 97, 116,
         101, 100>>
    [] OTHER -> UndefinedString

\* an analysis that comes back with two cards only
resubmitted_twoCards(r) ==
  [title |-> r.title, hasCards |-> TRUE,
   cards |-> [i \in 1..2 |->
                [position |-> r.cards[i].position,
                 name |-> codeUnits(r.cards[i].name),
                 meaning |-> codeUnits(r.cards[i].meaning)]],
   aura |-> codeUnits(r.aura),
   certification |-> codeUnits(r.certification)]

\* formData.append('analysis', JSON.stringify(analysis)) in the client and
\* analysis = JSON.parse(analysisStr) in the handler: the Reading as the render
\* handler reads it
resubmitted(r) ==
  [title |-> r.title, hasCards |-> TRUE,
   cards |-> [i \in DOMAIN r.cards |->
                [position |-> r.cards[i].position,
                 name |-> codeUnits(r.cards[i].name),
                 meaning |-> codeUnits(r.cards[i].meaning)]],
   aura |-> codeUnits(r.aura),
   certification |-> codeUnits(r.certification)]

\* the documents posted with it: one that does not load, and documents of
\* no page, one page and MaxPages pages
ResubmitDocuments ==
  {d \in Documents : ~d.loadable \/ Len(d.pages) \in {0, 1, MaxPages}}

\* the Reading of a 200 response of analyze is posted to render with the
\* document; a request made after render answered repeats that request.  The
\* handler runs from its entry to the await of parseForm
RenderResubmitted ==
  /\ apc = "done" /\ ares.status = 200
  /\ rpc \in {"idle", "done"}
  /\ \E d \in ResubmitDocuments :
       LET r == [baseRequest EXCEPT !.analysis = resubmitted(ares.body), !.doc = d]
       IN /\ rpc = "done" => r = rreq
          /\ rreq' = r
  /\ rprev' = IF rpc = "done" THEN rres ELSE NoRenderResponse
  /\ rpc' = "parsing"
  /\ rres' = NoRenderResponse
  /\ analysis' = NoAnalysis
  /\ originalPdf' = NoDocument /\ coverPdf' = NoDocument /\ mergedPdf' = NoDocument
  /\ pdfBytes' = NoBytes
  /\ UNCHANGED <<deckVars, helperVars, storageVars, viewVars, hookVars, analyzeVars, keywordVars>>

\* the analyze requests made before the Reading is posted to render
AnalyzeBeforeRender ==
  /\ rpc = "idle"
  /\ AnalyzeReceive \/ AnalyzeFinish

\* ------------------------------------------------- helper functions, called alone
HelperIdle == hpc = "idle" /\ hargs = <<>> /\ hresult = <<>>

\* "code", "data", "budget", "sales", "status", "apple", "CODE"
CategoryWordPool ==
  <<<<99, 111, 100, 101>>,
    <<100, 97, 116, 97>>,
    <<98, 117, 100, 103, 101, 116>>,
    <<115, 97, 108, 101, 115>>,
    <<115, 116, 97, 116, 117, 115>>,
    <<97, 112, 112, 108, 101>>,
    <<67, 79, 68, 69>>>>

KeywordLists ==
  {[i \in DOMAIN idx |-> CategoryWordPool[idx[i]]] :
     idx \in IndexSeqs(Len(CategoryWordPool), MaxKeywords)}

\* categorizeDocument(keywords), from call to return
CategorizeCall ==
  /\ hpc = "idle"
  /\ \E kws \in KeywordLists :
       /\ hpc' = "categorizeDocument"
       /\ hargs' = <<kws>>
       /\ hresult' = categorizeDocument(kws)
  /\ UNCHANGED <<deckVars, analyzeVars, keywordVars, renderVars, hookVars, storageVars, viewVars>>

\* "a", "bb", "ccc", "dddddd", and the empty word that two adjacent spaces make
WrapWordPool ==
  <<<<97>>, <<98, 98>>, <<99, 99, 99>>, <<100, 100, 100, 100, 100, 100>>, <<>>>>

WrapTexts == {joinWords(WrapWordPool, idx) : idx \in IndexSeqs(Len(WrapWordPool), MaxWrapWords)}

\* wrapText(text, maxChars), from call to return
WrapCall ==
  /\ hpc = "idle"
  /\ \E str \in WrapTexts, maxChars \in 1..MaxWrapChars :
       /\ hpc' = "wrapText"
       /\ hargs' = <<str, maxChars>>
       /\ hresult' = wrapText(str, maxChars)
  /\ UNCHANGED <<deckVars, analyzeVars, keywordVars, renderVars, hookVars, storageVars, viewVars>>

\* raw titles: up to MaxTitleChars of "A", " ", tab, "<", "-", "e" with an
\* acute accent, alone or in front of 24 repetitions of "ab < c"
TitleCharPool == <<65, 32, 9, 60, 45, 233>>
TitleBody == [i \in 1..144 |-> <<97, 98, 32, 60, 32, 99>>[((i - 1) % 6) + 1]]
RawTitles ==
  LET short == {[i \in DOMAIN idx |-> TitleCharPool[idx[i]]] :
                  idx \in IndexSeqs(Len(TitleCharPool), MaxTitleChars)}
  IN short \cup {s \o TitleBody : s \in short}

\* cleanTitle(title), from call to return
CleanTitleCall ==
  /\ hpc = "idle"
  /\ \E raw \in RawTitles :
       /\ hpc' = "cleanTitle"
       /\ hargs' = <<raw>>
       /\ hresult' = cleanTitle(raw)
  /\ UNCHANGED <<deckVars, analyzeVars, keywordVars, renderVars, hookVars, storageVars, viewVars>>

\* "a", "ab", "abc", ...: the first n letters, over again past "z"
Letters(n) == [i \in 1..n |-> 97 + ((i - 1) % 26)]

\* truncateText(text, maxLength), from call to return
TruncateCall ==
  /\ hpc = "idle"
  /\ \E n \in 0..MaxTruncate, maxLength \in 0..MaxTruncate :
       /\ hpc' = "truncateText"
       /\ hargs' = <<Letters(n), maxLength>>
       /\ hresult' = truncateText(Letters(n), maxLength)
  /\ UNCHANGED <<deckVars, analyzeVars, keywordVars, renderVars, hookVars, storageVars, viewVars>>

\* analyses whose title and card names are around the lengths the cover cuts at
CoverAnalyses ==
  {[title |-> Letters(t), hasCards |-> TRUE, aura |-> FocusGoblin,
    certification |-> PerfectlyPending,
    cards |-> [i \in 1..3 |-> [position |-> CardPool[i].position,
                                name |-> Letters(c + i), meaning |-> SomeMeaning]]] :
     t \in {0} \cup ((TITLE_MAX - 2)..(TITLE_MAX + 2)),
     c \in (CARD_NAME_MAX - 4)..(CARD_NAME_MAX + 2)}

\* createCoverPage(analysis) with the default page size, from call to return
CoverCall ==
  /\ hpc = "idle"
  /\ \E a \in CoverAnalyses :
       /\ hpc' = "createCoverPage"
       /\ hargs' = <<a>>
       /\ hresult' = createCoverPage(a, DEFAULT_PAGE_WIDTH, DEFAULT_PAGE_HEIGHT)
  /\ UNCHANGED <<deckVars, analyzeVars, keywordVars, renderVars, hookVars, storageVars, viewVars>>


\* seeds hashCode can return: the small ones, and the ends of its range
\* (2^31 - 2, 2^31 - 1 and 2^31, the absolute value of -2^31)
SeedPool ==
  {Num(0, n) : n \in 0..MaxSeed}
    \cup {Num(32767, Radix - 2), Num(32767, Radix - 1), Num(32768, 0)}

\* the five indices selectSeeded computes in generateReading for a seed:
\* past, present, future, aura, certification
selectedIndices(seedValue) ==
  <<seededIndex(Len(cardDecks.past), seedValue, 0),
    seededIndex(Len(cardDecks.present), seedValue, 1),
    seededIndex(Len(cardDecks.future), seedValue, 2),
    seededIndex(Len(auras), seedValue, 3),
    seededIndex(Len(certifications), seedValue, 4)>>

\* the five selections of generateReading for one seed, from the first to
\* the last
SelectionsCall ==
  /\ hpc = "idle"
  /\ \E s \in SeedPool :
       /\ hpc' = "selectSeeded"
       /\ hargs' = <<s>>
       /\ hresult' = selectedIndices(s)
  /\ UNCHANGED <<deckVars, analyzeVars, keywordVars, renderVars, hookVars, storageVars, viewVars>>
\* ---------------------------------------------- the localStorage wrapper
MAX_ITEM_SIZE == 5 * 1024
\* characters of the test item: key and value are both '__storage_test__'
TestItemSize == 32
\* characters JSON.stringify adds around the data: {"_storageVersion":1,
\* "_timestamp":<13 digits>,"data":...}
WrapperSize == 56

LastReadingKey == "pdf_tarot_last_reading"
HistoryKey == "pdf_tarot_history"
StorageKeys == {LastReadingKey, HistoryKey}
keySize(key) == IF key = HistoryKey THEN 17 ELSE 22

\* a stored item: the length of its string and the history entries in it,
\* older and younger than seven days
NoItem == [stored |-> FALSE, size |-> 0, old |-> 0, fresh |-> 0]

\* a history array as a value: the length of its JSON and its entries
historyValue(old, fresh) ==
  [size |-> 2 + (old + fresh) * EntrySize, old |-> old, fresh |-> fresh]

\* the values handed to setItem: a reading for the last-reading key (the last
\* one larger than MAX_ITEM_SIZE), a history array for the history key
StorageValues(key) ==
  IF key = HistoryKey
  THEN {historyValue(0, n) : n \in 0..MaxEntries}
  ELSE {[size |-> n, old |-> 0, fresh |-> 0] : n \in {300, 6000}}

\* free characters of the origin's quota that other scripts of the origin
\* can leave
FreeSpaces == {0, 40, 100, 500, 8000}

NoStorageCall == [key |-> "", result |-> "none", writes |-> 0]

\* a fresh origin: nothing stored, the whole quota free
StorageInit ==
  /\ localStorage = [free |-> 8000, items |-> [k \in StorageKeys |-> NoItem]]
  /\ storageCall = NoStorageCall

\* isStorageAvailable: the test item is written and removed
isStorageAvailable(st) == TestItemSize <= st.free

\* window.localStorage.setItem(key, a string of n characters) stays within
\* the quota
fits(st, key, n) ==
  IF st.items[key].stored
  THEN n - st.items[key].size <= st.free
  ELSE n + keySize(key) <= st.free

\* the storage after that write
written(st, key, n, value) ==
  [free |-> IF st.items[key].stored
            THEN st.free - (n - st.items[key].size)
            ELSE st.free - (n + keySize(key)),
   items |-> [st.items EXCEPT ![key] =
                [stored |-> TRUE, size |-> n,
                 old |-> value.old, fresh |-> value.fresh]]]

\* getReadingHistory: the stored array, or []
getReadingHistory(st) ==
  IF isStorageAvailable(st) /\ st.items[HistoryKey].stored
  THEN historyValue(st.items[HistoryKey].old, st.items[HistoryKey].fresh)
  ELSE historyValue(0, 0)

\* history.filter((entry) => entry.timestamp > sevenDaysAgo)
filtered(history) == historyValue(0, history.fresh)

\* setItem(key, value) in frame number depth of the call stack, with
\* clearOldReadings and the setItem it calls.  The frame after the last one
\* the stack has room for is a RangeError at the call; overflowInTry says
\* that the last frame itself overflows inside its try block.  The result is
\* "true", "false" or "threw", with the storage and the number of
\* window.localStorage.setItem calls for key.
RECURSIVE setItem(_, _, _, _, _)
setItem(depth, key, value, st, overflowInTry) ==
  LET n == WrapperSize + value.size
  IN  IF depth > StackLimit THEN [result |-> "threw", st |-> st, writes |-> 0]
      ELSE IF ~isStorageAvailable(st) THEN [result |-> "false", st |-> st, writes |-> 0]
      ELSE IF depth = StackLimit /\ overflowInTry
      THEN [result |-> "false", st |-> st, writes |-> 0]
      ELSE IF n > MAX_ITEM_SIZE THEN [result |-> "false", st |-> st, writes |-> 0]
      ELSE IF fits(st, key, n)
      THEN [result |-> "true", st |-> written(st, key, n, value), writes |-> 1]
      ELSE LET cleared == setItem(depth + 1, HistoryKey, filtered(getReadingHistory(st)),
                                  st, overflowInTry)
           IN  IF cleared.result = "threw"
               THEN [result |-> "threw", st |-> cleared.st, writes |-> 1 + cleared.writes]
               ELSE IF fits(cleared.st, key, n)
               THEN [result |-> "true", st |-> written(cleared.st, key, n, value),
                     writes |-> 2 + cleared.writes]
               ELSE [result |-> "false", st |-> cleared.st, writes |-> 2 + cleared.writes]

\* one call of setItem from outside the module
SetItemCall(key, value, overflowInTry) ==
  LET r == setItem(1, key, value, localStorage, overflowInTry)
  IN  /\ localStorage' = r.st
      /\ storageCall' = [key |-> key, result |-> r.result, writes |-> r.writes]
      /\ UNCHANGED <<deckVars, analyzeVars, keywordVars, renderVars, helperVars, hookVars, viewVars>>

\* a day passes: a history entry becomes older than seven days
EntryAges ==
  /\ localStorage.items[HistoryKey].fresh > 0
  /\ localStorage' = [localStorage EXCEPT !.items[HistoryKey].fresh = @ - 1,
                                           !.items[HistoryKey].old = @ + 1]
  /\ UNCHANGED <<storageCall, deckVars, analyzeVars, keywordVars, renderVars, helperVars, hookVars, viewVars>>

\* another script of the origin stores or removes items of its own
OtherScriptWrites(free) ==
  /\ localStorage' = [localStorage EXCEPT !.free = free]
  /\ UNCHANGED <<storageCall, deckVars, analyzeVars, keywordVars, renderVars, helperVars, hookVars, viewVars>>
\* ------------------------------------------------- the useAnalysis hook
\* retries after the first attempt, and the unit of the wait before a retry
MAX_RETRIES == 2
RETRY_DELAY == 1000

\* messages of the TypeError a browser's fetch rejects with
FetchFailures ==
  {"Failed to fetch", "NetworkError when attempting to fetch resource.", "Load failed"}

\* messages the analyze endpoint sends with a 400 or a 422 (none: no JSON body)
RejectionMessages ==
  { Undefined, "No PDF file provided",
    "Could not extract text from PDF. The document may be scanned or encrypted." }

\* how one fetch of attemptAnalysis can end: the signal is aborted, the timer of
\* createTimeoutPromise wins the race, fetch rejects, or a response arrives
AnalyzeOutcomes ==
  {[kind |-> k, status |-> 0, message |-> Undefined, body |-> Undefined] :
     k \in {"aborted", "timeout"}}
  \cup {[kind |-> "rejected", status |-> 0, message |-> m, body |-> Undefined] :
          m \in FetchFailures}
  \cup {[kind |-> "response", status |-> 200, message |-> Undefined, body |-> b] :
          b \in {"reading", "malformed", "notJson"}}
  \cup {[kind |-> "response", status |-> s, message |-> m, body |-> Undefined] :
          s \in {400, 405, 422, 500}, m \in RejectionMessages}

\* err.message.includes('Failed to fetch') || err.message.includes('Network'),
\* over the messages that occur here
mentionsNetwork(message) ==
  message \in {"Failed to fetch", "NetworkError when attempting to fetch resource."}

\* the try block of attemptAnalysis returns the parsed data
returnsData(o) == o.kind = "response" /\ o.status = 200 /\ o.body = "reading"

\* the value the try block of attemptAnalysis throws
thrownInTry(o) ==
  CASE o.kind = "aborted" ->
         [name |-> "AbortError", message |-> "The operation was aborted.", type |-> Undefined]
    [] o.kind = "timeout" ->
         [name |-> "Error", message |-> "Request timeout", type |-> Undefined]
    [] o.kind = "rejected" ->
         [name |-> "TypeError", message |-> o.message, type |-> Undefined]
    [] o.status \in {400, 422} ->
         [name |-> Undefined,
          message |-> IF o.message = Undefined
                      THEN "This document appears to be unreadable (scanned image or encrypted)"
                      ELSE o.message,
          type |-> "pdf_unreadable"]
    [] o.status >= 500 ->
         [name |-> Undefined, message |-> Undefined, type |-> "server"]
    [] o.status # 200 ->
         [name |-> Undefined, message |-> Undefined, type |-> "unknown"]
    [] o.body = "notJson" ->
         [name |-> "SyntaxError", message |-> "Unexpected token < in JSON at position 0",
          type |-> Undefined]
    [] OTHER ->
         [name |-> Undefined, message |-> Undefined, type |-> "invalid_response"]

\* the catch block of an attempt: the type of the error it throws for err
caught(err) ==
  IF err.name = "AbortError" \/ err.message = "Request timeout" THEN "timeout"
  ELSE IF mentionsNetwork(err.message) THEN "network"
  ELSE IF err.type # Undefined THEN err.type
  ELSE "unknown"

\* the type of the error attemptAnalysis throws
attemptError(o) == caught(thrownInTry(o))

dontRetry_unreadableOnly(type) == type = "pdf_unreadable"

\* "Don't retry certain errors"
dontRetry(type) == type \in {"pdf_unreadable", "invalid_response"}

\* the argument of sleep before a retry
retryDelay(retryCount) == RETRY_DELAY * retryCount

\* the operations called so far on a hook: the calls begun and the resets
operations(hook, calls) ==
  hook.resets + Cardinality({c \in DOMAIN calls : calls[c].pc # "idle"})

\* the hook after construction; no analyze() call has been made
AnalysisHookIdle ==
  /\ analysisHook = [state |-> "idle", result |-> "null", error |-> "null",
                     retryCount |-> 0, current |-> 0, resets |-> 0]
  /\ analyzeCalls = [c \in 1..MaxOperations |->
                       [pc |-> "idle", attempts |-> 0, delay |-> 0,
                        thrown |-> "none", aborted |-> FALSE, cancelled |-> FALSE]]

\* a loop head that leaves the loop when the last retry is due
loopHead_exclusiveBound(call, retryCount) ==
  IF retryCount < MAX_RETRIES
  THEN [call EXCEPT !.pc = "fetching", !.attempts = @ + 1]
  ELSE [call EXCEPT !.pc = "returned"]

\* the head of the retry loop: another attemptAnalysis, whose fetch is issued at
\* once, or the return after the loop
loopHead(call, retryCount) ==
  IF retryCount <= MAX_RETRIES
  THEN [call EXCEPT !.pc = "fetching", !.attempts = @ + 1]
  ELSE [call EXCEPT !.pc = "returned"]

\* the body of analyze(file), up to its first await, on the hook as it stands
analyzeFrom(c, file, hook) ==
  /\ operations(analysisHook, analyzeCalls) < MaxOperations
  /\ analyzeCalls[c].pc = "idle"
  /\ c > 1 => analyzeCalls[c - 1].pc # "idle"
  /\ IF file = "null"
     THEN /\ analyzeCalls' = [analyzeCalls EXCEPT ![c].pc = "returned"]
          /\ analysisHook' = hook
     ELSE /\ analysisHook' = [hook EXCEPT !.error = "null", !.result = "null",
                                !.retryCount = 0, !.state = "analyzing", !.current = c]
          /\ analyzeCalls' = [analyzeCalls EXCEPT ![c] = loopHead(@, 0)]

\* analyze(file)
Analyze(c, file) ==
  /\ analyzeFrom(c, file, analysisHook)
  /\ UNCHANGED <<deckVars, analyzeVars, keywordVars, renderVars, helperVars, storageVars, viewVars, exportHook, exportCalls>>

\* retry(file): analyze again when the hook shows an error
Retry(c, file) ==
  /\ analysisHook.state = "error"
  /\ analyzeFrom(c, file, [analysisHook EXCEPT !.retryCount = 0])
  /\ UNCHANGED <<deckVars, analyzeVars, keywordVars, renderVars, helperVars, storageVars, viewVars, exportHook, exportCalls>>

\* the race of one attempt settles; the rest of the loop body runs up to the
\* next await or the return (saveLastReading and addToHistory are taken to
\* return, as the storage wrapper catches the errors of localStorage)
AttemptSettles(c, o) ==
  LET call == analyzeCalls[c]
      type == attemptError(o)
      signal == call.aborted \/ o.kind \in {"aborted", "timeout"}
      \* the call as it ends with the error, and as it waits to retry
      ended == [call EXCEPT !.pc = "returned", !.thrown = type, !.aborted = signal]
      waiting == [call EXCEPT !.pc = "sleeping", !.thrown = type, !.aborted = signal,
                              !.delay = retryDelay(analysisHook.retryCount + 1)]
  IN  /\ call.pc = "fetching"
      /\ call.aborted => o.kind = "aborted"
      /\ o.kind = "aborted" => call.aborted \/ call.attempts > 1
      /\ IF returnsData(o)
         THEN /\ analysisHook' = [analysisHook EXCEPT !.result = "data", !.state = "success"]
              /\ analyzeCalls' =
                   [analyzeCalls EXCEPT ![c] = [call EXCEPT !.pc = "returned", !.thrown = "none"]]
         ELSE IF dontRetry(type)
         THEN /\ analysisHook' = [analysisHook EXCEPT !.error = type, !.state = "error"]
              /\ analyzeCalls' = [analyzeCalls EXCEPT ![c] = ended]
         ELSE IF analysisHook.retryCount < MAX_RETRIES
         THEN /\ analysisHook' = [analysisHook EXCEPT !.retryCount = @ + 1]
              /\ analyzeCalls' = [analyzeCalls EXCEPT ![c] = waiting]
         ELSE /\ analysisHook' = [analysisHook EXCEPT !.error = type, !.state = "error"]
              /\ analyzeCalls' = [analyzeCalls EXCEPT ![c] = ended]
      /\ UNCHANGED <<deckVars, analyzeVars, keywordVars, renderVars, helperVars, storageVars, viewVars, exportHook, exportCalls>>

\* the sleep before a retry is over
SleepDone(c) ==
  /\ analyzeCalls[c].pc = "sleeping"
  /\ analyzeCalls' =
       [analyzeCalls EXCEPT ![c] =
          loopHead([@ EXCEPT !.delay = 0, !.thrown = "none"], analysisHook.retryCount)]
  /\ UNCHANGED analysisHook
  /\ UNCHANGED <<deckVars, analyzeVars, keywordVars, renderVars, helperVars, storageVars, viewVars, exportHook, exportCalls>>

\* currentRequestRef.current.abort(), when a controller is there; cancelled
\* records that the abort found the call in flight or waiting to retry
abortCurrent(calls, current) ==
  IF current = 0 THEN calls
  ELSE [calls EXCEPT ![current].aborted = TRUE,
                     ![current].cancelled = @ \/ calls[current].pc \in {"fetching", "sleeping"}]

\* the state reset() leaves the hook in
resetHook(hook) ==
  [hook EXCEPT !.state = "idle", !.result = "null", !.error = "null",
               !.retryCount = 0, !.resets = @ + 1]

\* reset()
Reset ==
  /\ operations(analysisHook, analyzeCalls) < MaxOperations
  /\ analyzeCalls' = abortCurrent(analyzeCalls, analysisHook.current)
  /\ analysisHook' = resetHook(analysisHook)
  /\ UNCHANGED <<deckVars, analyzeVars, keywordVars, renderVars, helperVars, storageVars, viewVars, exportHook, exportCalls>>

\* cancel(): abort the current request, then reset()
Cancel ==
  /\ operations(analysisHook, analyzeCalls) < MaxOperations
  /\ analyzeCalls' = abortCurrent(abortCurrent(analyzeCalls, analysisHook.current),
                                  analysisHook.current)
  /\ analysisHook' = resetHook(analysisHook)
  /\ UNCHANGED <<deckVars, analyzeVars, keywordVars, renderVars, helperVars, storageVars, viewVars, exportHook, exportCalls>>
\* --------------------------------------------------- the useExport hook
\* MAX_RETRIES of useExport.js
EXPORT_MAX_RETRIES == 1

\* the analysis objects handed to exportPdf, null among them
ExportAnalyses ==
  {[isNull |-> FALSE, hasCards |-> n > 0 \/ h, cards |-> [i \in 1..n |-> CardPool[1]], aura |-> au] :
     h \in BOOLEAN, n \in 0..MaxCards, au \in AuraValues}
  \cup {[isNull |-> TRUE, hasCards |-> FALSE, cards |-> <<>>, aura |-> UndefinedString]}

validateExportData(file, a) ==
  IF file = "null" THEN [valid |-> FALSE, error |-> "No file provided"]
  ELSE IF a.isNull THEN [valid |-> FALSE, error |-> "No analysis data"]
  ELSE IF ~a.hasCards \/ Len(a.cards) # 3 THEN [valid |-> FALSE, error |-> "Invalid card data"]
  ELSE IF IsFalsyString(a.aura) THEN [valid |-> FALSE, error |-> "Missing aura data"]
  ELSE [valid |-> TRUE, error |-> Undefined]

\* how one fetch of attemptExport can end, and whether triggerDownload then
\* succeeds
ExportOutcomes ==
  {[kind |-> k, status |-> 0, message |-> Undefined, contentType |-> Undefined,
    size |-> 0, download |-> FALSE] : k \in {"aborted", "timeout"}}
  \cup {[kind |-> "rejected", status |-> 0, message |-> m, contentType |-> Undefined,
         size |-> 0, download |-> FALSE] : m \in FetchFailures}
  \cup {[kind |-> "response", status |-> s, message |-> Undefined,
         contentType |-> "application/json", size |-> 1, download |-> FALSE] :
          s \in {400, 405, 500}}
  \cup {[kind |-> "response", status |-> 200, message |-> Undefined,
         contentType |-> t, size |-> n, download |-> d] :
          t \in {Undefined, "application/json", "application/pdf"},
          n \in {0, 1}, d \in BOOLEAN}

\* the try block of attemptExport returns the blob
returnsBlob(o) ==
  /\ o.kind = "response" /\ o.status = 200
  /\ o.contentType = "application/pdf" /\ o.size # 0

\* the value the try block of attemptExport throws
thrownInExport(o) ==
  CASE o.kind = "aborted" ->
         [name |-> "AbortError", message |-> "The operation was aborted.", type |-> Undefined]
    [] o.kind = "timeout" ->
         [name |-> "Error", message |-> "Request timeout", type |-> Undefined]
    [] o.kind = "rejected" ->
         [name |-> "TypeError", message |-> o.message, type |-> Undefined]
    [] o.status >= 500 ->
         [name |-> Undefined, message |-> Undefined, type |-> "server"]
    [] o.status # 200 ->
         [name |-> Undefined, message |-> Undefined, type |-> "unknown"]
    [] OTHER ->
         [name |-> Undefined, message |-> Undefined, type |-> "invalid_response"]

\* the type of the error one pass of the loop's try block ends with, "none"
\* when the download was triggered
exportError(o) ==
  IF ~returnsBlob(o) THEN caught(thrownInExport(o))
  ELSE IF ~o.download THEN "download_failed"
  ELSE "none"

\* the hook after construction; no exportPdf() call has been made
ExportHookIdle ==
  /\ exportHook = [state |-> "idle", error |-> "null", exportedFilename |-> "null",
                   retryCount |-> 0, current |-> 0, resets |-> 0]
  /\ exportCalls = [c \in 1..MaxOperations |->
                      [pc |-> "idle", valid |-> FALSE, attempts |-> 0,
                       thrown |-> "none", aborted |-> FALSE]]

\* the head of the retry loop: another attemptExport, whose fetch is issued at
\* once, or the return after the loop
exportLoopHead(call, retryCount) ==
  IF retryCount <= EXPORT_MAX_RETRIES
  THEN [call EXCEPT !.pc = "fetching", !.attempts = @ + 1]
  ELSE [call EXCEPT !.pc = "returned"]

\* the body of exportPdf(file, analysis), up to its first await, on the hook
\* as it stands
exportBegins(c, file, a, hook) ==
  /\ exportCalls[c].pc = "idle"
  /\ c > 1 => exportCalls[c - 1].pc # "idle"
  /\ IF ~validateExportData(file, a).valid
     THEN /\ exportHook' = [hook EXCEPT !.error = "missing_data", !.state = "error"]
          /\ exportCalls' = [exportCalls EXCEPT ![c].pc = "returned"]
     ELSE /\ exportHook' = [hook EXCEPT !.error = "null", !.exportedFilename = "null",
                              !.retryCount = 0, !.state = "rendering", !.current = c]
          /\ exportCalls' = [exportCalls EXCEPT ![c] = exportLoopHead([@ EXCEPT !.valid = TRUE], 0)]

\* exportPdf(file, analysis) as one of the operations made on the hook
exportFrom(c, file, a, hook) ==
  /\ operations(exportHook, exportCalls) < MaxOperations
  /\ exportBegins(c, file, a, hook)

\* exportPdf(file, analysis)
ExportPdf(c, file, a) ==
  /\ exportFrom(c, file, a, exportHook)
  /\ UNCHANGED <<deckVars, analyzeVars, keywordVars, renderVars, helperVars, storageVars, viewVars, analysisHook, analyzeCalls>>

\* retry(file, analysis): export again when the hook shows an error
ExportRetry(c, file, a) ==
  /\ exportHook.state = "error"
  /\ exportFrom(c, file, a, [exportHook EXCEPT !.retryCount = 0])
  /\ UNCHANGED <<deckVars, analyzeVars, keywordVars, renderVars, helperVars, storageVars, viewVars, analysisHook, analyzeCalls>>

\* the race of one attempt settles; the rest of the loop body runs up to the
\* next await or the return
ExportSettles(c, o) ==
  LET call == exportCalls[c]
      type == exportError(o)
      seen == [call EXCEPT !.thrown = type,
                           !.aborted = @ \/ o.kind \in {"aborted", "timeout"}]
  IN  /\ call.pc = "fetching"
      /\ call.aborted => o.kind = "aborted"
      /\ o.kind = "aborted" => call.aborted \/ call.attempts > 1
      /\ IF type = "none"
         THEN /\ exportHook' = [exportHook EXCEPT !.exportedFilename = "name", !.state = "success"]
              /\ exportCalls' = [exportCalls EXCEPT ![c] = [seen EXCEPT !.pc = "returned"]]
         ELSE IF exportHook.retryCount < EXPORT_MAX_RETRIES /\ type # "missing_data"
         THEN /\ exportHook' = [exportHook EXCEPT !.retryCount = @ + 1]
              /\ exportCalls' =
                   [exportCalls EXCEPT ![c] = exportLoopHead(seen, exportHook.retryCount + 1)]
         ELSE /\ exportHook' = [exportHook EXCEPT !.error = type, !.state = "error"]
              /\ exportCalls' = [exportCalls EXCEPT ![c] = [seen EXCEPT !.pc = "returned"]]
      /\ UNCHANGED <<deckVars, analyzeVars, keywordVars, renderVars, helperVars, storageVars, viewVars, analysisHook, analyzeCalls>>

\* the state reset() leaves the export hook in
resetExport(hook) ==
  [hook EXCEPT !.state = "idle", !.error = "null", !.exportedFilename = "null",
               !.retryCount = 0, !.resets = @ + 1]

\* reset() of useExport
ExportReset ==
  /\ operations(exportHook, exportCalls) < MaxOperations
  /\ exportCalls' = abortCurrent(exportCalls, exportHook.current)
  /\ exportHook' = resetExport(exportHook)
  /\ UNCHANGED <<deckVars, analyzeVars, keywordVars, renderVars, helperVars, storageVars, viewVars, analysisHook, analyzeCalls>>

\* cancel() of useExport: abort the current request, then reset()
ExportCancel ==
  /\ operations(exportHook, exportCalls) < MaxOperations
  /\ exportCalls' = abortCurrent(abortCurrent(exportCalls, exportHook.current),
                                 exportHook.current)
  /\ exportHook' = resetExport(exportHook)
  /\ UNCHANGED <<deckVars, analyzeVars, keywordVars, renderVars, helperVars, storageVars, viewVars, analysisHook, analyzeCalls>>
\* --------------------------------------------------- the useReading hook
\* the stagger between the reveals of two cards and the duration of one card
\* flip, in milliseconds
CARD_REVEAL_STAGGER == 400
CARD_FLIP_DURATION == 600

\* the step of the clock: every delay of the hook is a multiple of it
Tick == CARD_FLIP_DURATION - CARD_REVEAL_STAGGER

\* const positions = ['past', 'present', 'future']
positions == <<"past", "present", "future">>

\* the value resetCardStates gives cardRevealStates
HiddenCards == [p \in Positions |-> "hidden"]
\* the value revealAllCards gives cardRevealStates
RevealedCards == [p \in Positions |-> "revealed"]

\* the hook after construction, before any file was handed to it
ReadingIdle ==
  /\ cardRevealStates = HiddenCards /\ revealComplete = FALSE
  /\ timers = <<>> /\ analyzing = FALSE
  /\ readingCompleteCalls = 0 /\ readingCalls = <<>>

\* setTimeout(callback, delay): timers are kept in the order they were set;
\* index is the index of the card in positions, 0 for the timer that ends
\* the sequence
timer(callback, index, delay) == [callback |-> callback, index |-> index, due |-> delay]

\* a sequence whose cards are scheduled from the last to the first
sequenceTimers_futureFirst ==
  [i \in 1..3 |-> timer("reveal", i, (3 - i) * CARD_REVEAL_STAGGER)]

\* positions.forEach((position, index) => setTimeout(..., index * CARD_REVEAL_STAGGER))
sequenceTimers ==
  [i \in 1..3 |-> timer("reveal", i, (i - 1) * CARD_REVEAL_STAGGER)]

\* the timers the callback of a reveal timer sets: the one of revealCard
\* that marks the card revealed, and after the last card the one that marks
\* the sequence complete
afterReveal(index) ==
  IF index = Len(positions)
  THEN <<timer("revealed", index, CARD_FLIP_DURATION), timer("complete", 0, CARD_FLIP_DURATION)>>
  ELSE <<timer("revealed", index, CARD_FLIP_DURATION)>>

\* the timer that fires next: the one set first among those that are due
IsNextTimer(i) ==
  /\ i \in 1..Len(timers) /\ timers[i].due = 0
  /\ \A j \in 1..(i - 1) : timers[j].due /= 0

\* timers without the one at i
withoutTimer(i) == [k \in 1..(Len(timers) - 1) |-> IF k < i THEN timers[k] ELSE timers[k + 1]]

\* handleFileReady(file), called by useFileUpload when a file passed its
\* checks: resetCardStates; analysis.reset() aborts a running request and
\* analysis.analyze(file) starts one.  What reset and analyze do to the
\* state of useAnalysis and useExport is in Reset, Analyze and ExportReset
handleFileReady ==
  /\ Len(readingCalls) < MaxReadingCalls
  /\ cardRevealStates' = HiddenCards
  /\ revealComplete' = FALSE
  /\ analyzing' = TRUE
  /\ readingCalls' = Append(readingCalls, "handleFileReady")
  /\ UNCHANGED <<timers, readingCompleteCalls>>
  /\ UNCHANGED <<deckVars, analyzeVars, keywordVars, renderVars, helperVars, hookVars, storageVars, appVars>>

\* the analysis ends with a result: handleAnalysisComplete(result) calls
\* revealCardsSequentially, autoReveal being true
handleAnalysisComplete ==
  /\ analyzing
  /\ Len(readingCalls) < MaxReadingCalls
  /\ analyzing' = FALSE
  /\ timers' = timers \o sequenceTimers
  /\ readingCalls' = Append(readingCalls, "handleAnalysisComplete")
  /\ UNCHANGED <<cardRevealStates, revealComplete, readingCompleteCalls>>
  /\ UNCHANGED <<deckVars, analyzeVars, keywordVars, renderVars, helperVars, hookVars, storageVars, appVars>>

\* the analysis ends with an error: onAnalysisComplete is not called
AnalysisFails ==
  /\ analyzing
  /\ analyzing' = FALSE
  /\ UNCHANGED <<cardRevealStates, revealComplete, timers, readingCompleteCalls, readingCalls>>
  /\ UNCHANGED <<deckVars, analyzeVars, keywordVars, renderVars, helperVars, hookVars, storageVars, appVars>>

\* revealAllCards()
revealAllCards ==
  /\ Len(readingCalls) < MaxReadingCalls
  /\ cardRevealStates' = RevealedCards
  /\ revealComplete' = TRUE
  /\ readingCalls' = Append(readingCalls, "revealAllCards")
  /\ UNCHANGED <<timers, analyzing, readingCompleteCalls>>
  /\ UNCHANGED <<deckVars, analyzeVars, keywordVars, renderVars, helperVars, hookVars, storageVars, appVars>>

\* resetReading(): the three hooks are reset, which aborts a running
\* analysis, and resetCardStates is called
resetReading ==
  /\ Len(readingCalls) < MaxReadingCalls
  /\ cardRevealStates' = HiddenCards
  /\ revealComplete' = FALSE
  /\ analyzing' = FALSE
  /\ readingCalls' = Append(readingCalls, "resetReading")
  /\ UNCHANGED <<timers, readingCompleteCalls>>
  /\ UNCHANGED <<deckVars, analyzeVars, keywordVars, renderVars, helperVars, hookVars, storageVars, appVars>>

\* the callback of the timer that is next
TimerFires ==
  \E i \in 1..Len(timers) :
    /\ IsNextTimer(i)
    /\ LET t == timers[i]
       IN CASE t.callback = "reveal" ->
                 /\ cardRevealStates' = [cardRevealStates EXCEPT ![positions[t.index]] = "revealing"]
                 /\ timers' = withoutTimer(i) \o afterReveal(t.index)
                 /\ UNCHANGED <<revealComplete, readingCompleteCalls>>
            [] t.callback = "revealed" ->
                 /\ cardRevealStates' = [cardRevealStates EXCEPT ![positions[t.index]] = "revealed"]
                 /\ timers' = withoutTimer(i)
                 /\ UNCHANGED <<revealComplete, readingCompleteCalls>>
            [] OTHER ->
                 /\ revealComplete' = TRUE
                 /\ readingCompleteCalls' = readingCompleteCalls + 1
                 /\ timers' = withoutTimer(i)
                 /\ UNCHANGED cardRevealStates
    /\ UNCHANGED <<analyzing, readingCalls>>
    /\ UNCHANGED <<deckVars, analyzeVars, keywordVars, renderVars, helperVars, hookVars, storageVars, appVars>>

\* time passes while no timer is due
TimePasses ==
  /\ timers /= <<>>
  /\ \A i \in 1..Len(timers) : timers[i].due > 0
  /\ timers' = [i \in 1..Len(timers) |-> [timers[i] EXCEPT !.due = @ - Tick]]
  /\ UNCHANGED <<cardRevealStates, revealComplete, analyzing, readingCompleteCalls, readingCalls>>
  /\ UNCHANGED <<deckVars, analyzeVars, keywordVars, renderVars, helperVars, hookVars, storageVars, appVars>>

\* ------------------------------------------------- the App component
\* the App after construction: the upload view, no ExportButton shown.
\* exportButton is the state of the ExportButton the reading view shows,
\* whether its timer back to idle is set, and how its last click ended
NoButton == [state |-> "idle", timer |-> FALSE, clicked |-> "none"]
AppIdle ==
  /\ currentView = "upload"
  /\ exportButton = NoButton

\* analysis.result in the reading view: a Reading the analyze call returned
AppResult ==
  [isNull |-> FALSE, hasCards |-> TRUE, cards |-> [i \in 1..3 |-> CardPool[i]],
   aura |-> FocusGoblin]

\* a render request is in flight: its fetch is pending and was not aborted
InFlight(c) == exportCalls[c].pc = "fetching" /\ ~exportCalls[c].aborted

\* a fetch that was aborted and whose rejection has not been delivered
AbortPending == \E c \in 1..MaxOperations : exportCalls[c].pc = "fetching" /\ exportCalls[c].aborted

\* a click that is handled whatever the button shows
clickHandled_always(button, disabled) == TRUE

\* if (state !== 'idle' || disabled) return, with disabled = exportState.isRendering
clickHandled(button, disabled) == button.state = "idle" /\ ~disabled

\* App.handleFileReady(file): a file chosen in the upload view.  The user
\* chooses it after the rejections of the fetches aborted before were
\* delivered: abort() queues them at once
AppFileReady ==
  /\ currentView = "upload"
  /\ ~AbortPending
  /\ currentView' = "analyzing"
  /\ UNCHANGED exportButton
  /\ UNCHANGED <<deckVars, analyzeVars, keywordVars, renderVars, helperVars, hookVars, storageVars, revealVars>>

\* App.handleAnalysisComplete(result): the reading view is shown, with a new
\* ExportButton
AppAnalysisComplete ==
  /\ currentView = "analyzing"
  /\ currentView' = "reading"
  /\ exportButton' = NoButton
  /\ UNCHANGED <<deckVars, analyzeVars, keywordVars, renderVars, helperVars, hookVars, storageVars, revealVars>>

\* App.handleAnalysisError(error): back to the upload view
AppAnalysisError ==
  /\ currentView = "analyzing"
  /\ currentView' = "upload"
  /\ UNCHANGED exportButton
  /\ UNCHANGED <<deckVars, analyzeVars, keywordVars, renderVars, helperVars, hookVars, storageVars, revealVars>>

\* a click on the ExportButton: handleClick, which returns at once or sets
\* 'loading' and awaits onExport().  onExport is App.handleExport, which
\* calls exportPdf.exportPdf(file, result) and returns undefined, so the
\* await is over in the same turn and handleClick sets 'success' and the
\* timer back to 'idle'
ClickExport ==
  /\ currentView = "reading"
  /\ IF ~clickHandled(exportButton, exportHook.state = "rendering")
     THEN /\ exportButton' = [exportButton EXCEPT !.clicked = "ignored"]
          /\ UNCHANGED <<exportHook, exportCalls>>
     ELSE /\ \E c \in 1..MaxOperations :
               /\ c > 1 => exportCalls[c - 1].pc # "idle"
               /\ exportBegins(c, "file", AppResult, exportHook)
          /\ exportButton' = [state |-> "success", timer |-> TRUE, clicked |-> "started"]
  /\ UNCHANGED currentView
  /\ UNCHANGED <<deckVars, analyzeVars, keywordVars, renderVars, helperVars, storageVars, analysisHook, analyzeCalls, revealVars>>

\* setTimeout(() => setState('idle'), 2500) of handleClick
ButtonTimerFires ==
  /\ exportButton.timer
  /\ exportButton' = [exportButton EXCEPT !.state = "idle", !.timer = FALSE]
  /\ UNCHANGED currentView
  /\ UNCHANGED <<deckVars, analyzeVars, keywordVars, renderVars, helperVars, hookVars, storageVars, revealVars>>

\* App.handleStartOver: the hooks are reset, which aborts the render request
\* of the export hook, and the upload view is shown
handleStartOver ==
  /\ currentView = "reading"
  /\ exportHook.resets < MaxOperations
  /\ exportCalls' = abortCurrent(exportCalls, exportHook.current)
  /\ exportHook' = resetExport(exportHook)
  /\ currentView' = "upload"
  /\ exportButton' = NoButton
  /\ UNCHANGED <<deckVars, analyzeVars, keywordVars, renderVars, helperVars, storageVars, analysisHook, analyzeCalls, revealVars>>

\* ------------------------------------------------------- the specifications
DecksInit ==
  /\ cardDecks = CARD_DECKS /\ auras = AURAS /\ certifications = CERTIFICATIONS
  /\ stopWords = STOP_WORDS

Init ==
  /\ DecksInit /\ AnalyzeIdle /\ KeywordIdle /\ RenderIdle /\ HelperIdle
  /\ AnalysisHookIdle /\ ExportHookIdle /\ StorageInit
  /\ ReadingIdle /\ AppIdle

\* the analyze pipeline, call after call
NextAnalyze == AnalyzeReceive \/ AnalyzeFinish
SpecAnalyze == Init /\ [][NextAnalyze]_vars

\* one call of extractKeywords
NextKeywords == KeywordsCall \/ KeywordsReturn
SpecKeywords == Init /\ [][NextKeywords]_vars

\* one render request
NextRender ==
  \/ RenderReceive \/ RenderValidate \/ LoadOriginal \/ CreateCover
  \/ CopyCover \/ CopyOriginal \/ Save \/ Send
SpecRender == Init /\ [][NextRender]_vars


\* analyze, then render of the Reading it returned, repeated
NextResubmit ==
  \/ AnalyzeBeforeRender
  \/ RenderResubmitted
  \/ RenderValidate \/ LoadOriginal \/ CreateCover
  \/ CopyCover \/ CopyOriginal \/ Save \/ Send
SpecResubmit == Init /\ [][NextResubmit]_vars

\* one call of one helper function
NextHelpers ==
  CategorizeCall \/ WrapCall \/ CleanTitleCall \/ TruncateCall \/ CoverCall
    \/ SelectionsCall
SpecHelpers == Init /\ [][NextHelpers]_vars

\* analyze() calls on one useAnalysis hook, with reset() and cancel()
NextUseAnalysis ==
  \/ \E c \in 1..MaxOperations, file \in {"null", "file"} : Analyze(c, file)
  \/ \E c \in 1..MaxOperations, file \in {"null", "file"} : Retry(c, file)
  \/ \E c \in 1..MaxOperations, o \in AnalyzeOutcomes : AttemptSettles(c, o)
  \/ \E c \in 1..MaxOperations : SleepDone(c)
  \/ Reset
  \/ Cancel
SpecUseAnalysis == Init /\ [][NextUseAnalysis]_vars

\* exportPdf() calls on one useExport hook, with reset() and cancel()
NextUseExport ==
  \/ \E c \in 1..MaxOperations, file \in {"null", "file"}, a \in ExportAnalyses : ExportPdf(c, file, a)
  \/ \E c \in 1..MaxOperations, file \in {"null", "file"}, a \in ExportAnalyses : ExportRetry(c, file, a)
  \/ \E c \in 1..MaxOperations, o \in ExportOutcomes : ExportSettles(c, o)
  \/ ExportReset
  \/ ExportCancel
SpecUseExport == Init /\ [][NextUseExport]_vars

\* one useReading hook: files handed to it, analyses that end, resets, and
\* the timers of its reveal sequences
NextReveal ==
  \/ handleFileReady \/ handleAnalysisComplete \/ AnalysisFails
  \/ revealAllCards \/ resetReading
  \/ TimerFires \/ TimePasses
SpecReveal == Init /\ [][NextReveal]_vars

\* the App: uploads, analyses that end, clicks on Export and on Read Another
\* Document, and the render requests of the export hook
NextApp ==
  \/ AppFileReady \/ AppAnalysisComplete \/ AppAnalysisError
  \/ ClickExport \/ ButtonTimerFires \/ handleStartOver
  \/ \E c \in 1..MaxOperations, o \in ExportOutcomes : ExportSettles(c, o)
SpecApp == Init /\ [][NextApp]_vars

\* setItem calls on one origin's localStorage
NextStorage ==
  \/ \E key \in StorageKeys, overflowInTry \in BOOLEAN :
       \E value \in StorageValues(key) : SetItemCall(key, value, overflowInTry)
  \/ EntryAges
  \/ \E free \in FreeSpaces : OtherScriptWrites(free)
SpecStorage == Init /\ [][NextStorage]_vars

\* a call that is running goes on: its attempt settles (it resolves, rejects,
\* or the timer of createTimeoutPromise fires) or its sleep ends
AnalysisProceeds ==
  \E c \in 1..MaxOperations :
    \/ \E o \in AnalyzeOutcomes : AttemptSettles(c, o)
    \/ SleepDone(c)

\* the same hook when running calls always go on
SpecUseAnalysisFair == SpecUseAnalysis /\ WF_vars(AnalysisProceeds)

\* ------------------------------------------------- properties of the render
\* the request carried a Reading object as far as the checks of the handler
ReadingValidated ==
  /\ rpc \notin {"idle", "parsing"}
  /\ rreq.method = "POST" /\ rreq.formOk /\ rreq.analysisStr = "object"

\* no document was loaded, composed or merged for the request
NothingRendered ==
  /\ ~originalPdf.loaded /\ ~coverPdf.loaded /\ ~mergedPdf.loaded /\ ~pdfBytes.saved

RejectedByValidation == rpc = "done" /\ rres.status = 400 /\ rres.body = "json"

\* pages is the cover followed by the pages of the request's document
CoverThenOriginal(pages) ==
  LET N == Len(rreq.doc.pages)
  IN /\ N >= 1
     /\ Len(pages) = N + 1
     /\ pages[1].kind = "cover"
     /\ pages[1] = coverPdf.pages[1]
     /\ \A i \in 1..N : pages[i + 1] = rreq.doc.pages[i]

\* C1: a successful render of an original of N >= 1 pages returns exactly
\* N + 1 pages: page 0 is the composed cover page and pages 1..N are the
\* original's pages in their original order.
C1_CoverThenOriginalPages ==
  /\ pdfBytes.saved => CoverThenOriginal(pdfBytes.pages)
  /\ (rpc = "done" /\ rres.status = 200) => CoverThenOriginal(rres.pdf)

C1_Witness ==
  /\ rpc = "done" /\ rres.status = 200
  /\ Len(rreq.doc.pages) >= 2 /\ Len(rres.pdf) = Len(rreq.doc.pages) + 1

\* C2: a render that fails at any step (validation, load, compose, merge,
\* save) answers with an error response only: no PDF body, no PDF headers and
\* no partial document; PDF headers and bytes appear only in the 200 response
\* that carries the complete saved document.
C2_FailureSendsOnlyAnError ==
  /\ (rpc = "done" /\ rres.status /= 200) =>
        /\ rres.status \in {400, 405, 500}
        /\ rres.body = "json" /\ rres.headers = {} /\ rres.pdf = <<>>
  /\ (rres.body = "pdf" \/ rres.headers /= {} \/ rres.pdf /= <<>>) =>
        /\ rpc = "done" /\ rres.status = 200
        /\ pdfBytes.saved /\ rres.pdf = pdfBytes.pages
        /\ Len(rres.pdf) = Len(rreq.doc.pages) + 1

\* the merge had produced pages when the request failed
C2_Witness ==
  /\ rpc = "done" /\ rres.status = 500
  /\ mergedPdf.loaded /\ mergedPdf.pages /= <<>> /\ rres.pdf = <<>>

\* C3: a render request whose Reading has no cards field, or a cards array
\* of a length other than 3, is rejected with a validation error (400) before
\* the document is loaded or the cover is composed.
C3_WrongCardCountRejected ==
  (ReadingValidated /\ (~rreq.analysis.hasCards \/ Len(rreq.analysis.cards) /= 3))
     => RejectedByValidation /\ NothingRendered

C3_Witness ==
  /\ rpc = "done" /\ rres.message = "Invalid analysis: missing cards"
  /\ rreq.analysis.hasCards /\ Len(rreq.analysis.cards) > 3

\* each of past, present and future is the position of exactly one card
EachPositionOnce(cards) ==
  \A p \in Positions : Cardinality({i \in 1..Len(cards) : cards[i].position = p}) = 1

\* C4: a render request whose Reading has three cards whose positions are
\* not exactly past, present and future, each once, is rejected with a
\* validation error before rendering.
C4_PositionsCheckedBeforeRendering ==
  (/\ ReadingValidated
   /\ rreq.analysis.hasCards /\ Len(rreq.analysis.cards) = 3
   /\ ~EachPositionOnce(rreq.analysis.cards))
     => RejectedByValidation /\ NothingRendered

C16_CoverHasFirstPageSize ==
  /\ coverPdf.loaded =>
        /\ coverPdf.pages[1].width = rreq.doc.pages[1].width
        /\ coverPdf.pages[1].height = rreq.doc.pages[1].height
  /\ (rpc = "done" /\ rres.status = 200) =>
        /\ rres.pdf[1].width = rreq.doc.pages[1].width
        /\ rres.pdf[1].height = rreq.doc.pages[1].height

\* a first page of 595 x 842 in front of a second page of 612 x 792
C16_Witness ==
  /\ rpc = "done" /\ rres.status = 200 /\ Len(rreq.doc.pages) >= 2
  /\ rres.pdf[1].kind = "cover" /\ rres.pdf[1].width = 595 /\ rres.pdf[1].height = 842
  /\ rres.pdf[3].width = 612 /\ rres.pdf[3].height = 792

\* the message of the first check the request fails, "" when it passes all:
\* file, analysis field, JSON, three cards, aura
FirstFailedCheck(r) ==
  IF ~r.hasFile THEN "No PDF file provided"
  ELSE IF r.analysisStr = "absent" THEN "No analysis data provided"
  ELSE IF r.analysisStr = "invalid" THEN "Invalid analysis JSON"
  ELSE IF r.analysisStr = "null" \/ ~r.analysis.hasCards \/ Len(r.analysis.cards) /= 3
       THEN "Invalid analysis: missing cards"
  ELSE IF IsFalsyString(r.analysis.aura) THEN "Invalid analysis: missing aura"
  ELSE ""

\* C17: the handler checks file, analysis field, JSON, cards and aura in
\* that order; the first failing check answers 400 with its own message and
\* nothing later runs; a failure after all checks passed answers 500
\* "Failed to render PDF".
C17_ChecksInOrder ==
  (rpc \notin {"idle", "parsing"} /\ rreq.method = "POST" /\ rreq.formOk) =>
     /\ FirstFailedCheck(rreq) /= "" =>
           /\ RejectedByValidation /\ rres.message = FirstFailedCheck(rreq)
           /\ NothingRendered
     /\ (FirstFailedCheck(rreq) = "" /\ rpc = "done" /\ rres.status /= 200) =>
           rres.status = 500 /\ rres.message = "Failed to render PDF"

\* ------------------------------------------------ properties of the analysis
\* the call reached generateReading
SeedComputed ==
  /\ apc = "done" /\ areq.hasFile /\ areq.parseOk /\ Len(text) >= MIN_TEXT_LENGTH

\* C6: analyzing a document again, with identical extracted text and title,
\* answers with a Reading identical in every field.
C6_SameDocumentSameReading ==
  (/\ apc = "done" /\ ares.status = 200
   /\ prev.valid /\ prev.text = text /\ prev.title = title)
     => reading = prev.reading /\ ares.body = prev.reading

C6_Witness ==
  /\ apc = "done" /\ ares.status = 200
  /\ prev.valid /\ prev.text = text /\ prev.title = title
  /\ Len(reading.cards) = 3 /\ reading = prev.reading

\* two successive calls whose documents have the same title and the same
\* first 500 code units of text
SameSeedInputs ==
  /\ apc = "done" /\ ares.status = 200 /\ prev.valid
  /\ prev.title = title
  /\ SubSeq(prev.text, 1, Min(500, Len(prev.text))) = SubSeq(text, 1, Min(500, Len(text)))

\* C7 as stated: the Reading is determined by the title and the first 500
\* characters of the text alone; text beyond them changes nothing of it.
C7_ReadingFromPrefixAlone == SameSeedInputs => reading = prev.reading

\* C7 amended: the title, the three cards, the aura and the certification
\* are determined by the title and the first 500 characters of the text; the
\* keywords and the category come from the whole extracted text.
C7_SelectionsFromPrefixAlone ==
  SameSeedInputs =>
     /\ reading.title = prev.reading.title
     /\ reading.cards = prev.reading.cards
     /\ reading.aura = prev.reading.aura
     /\ reading.certification = prev.reading.certification

\* the two texts differ beyond the first 500 code units and so do the keywords
C7_Witness ==
  /\ SameSeedInputs
  /\ Len(text) > 500 /\ prev.text /= text
  /\ reading.keywords /= prev.reading.keywords
  /\ reading.cards = prev.reading.cards

\* C8: for every seed hashCode returns, the selection index is in 0..7 for
\* the past, present and future decks (offsets 0, 1, 2) and in 0..9 for the
\* auras and the certifications (offsets 3, 4).
C8_IndicesInRange ==
  SeedComputed =>
     /\ seededIndex(Len(cardDecks.past), seed, 0) \in 0..7
     /\ seededIndex(Len(cardDecks.present), seed, 1) \in 0..7
     /\ seededIndex(Len(cardDecks.future), seed, 2) \in 0..7
     /\ seededIndex(Len(auras), seed, 3) \in 0..9
     /\ seededIndex(Len(certifications), seed, 4) \in 0..9

\* the seed 2^31, the largest hashCode returns (Math.abs of -2^31)
C8_Witness ==
  /\ SeedComputed /\ ares.status = 200
  /\ seed = Num(32768, 0)

\* h * 31 + c modulo 2^32, on the unsigned 32-bit word <<high, low>>
polyStep(h, c) ==
  LET low == h[2] * 31 + c
  IN <<(h[1] * 31 + (low \div Radix)) % Radix, low % Radix>>

RECURSIVE polyHash(_, _, _, _)
polyHash(str, from, to, h) ==
  IF from > to THEN h
  ELSE IF from = to THEN polyStep(h, str[from])
  ELSE LET firstHalf == polyHash(str, from, (from + to) \div 2, h)
       IN IF firstHalf[1] >= 0
          THEN polyHash(str, ((from + to) \div 2) + 1, to, firstHalf)
          ELSE firstHalf

\* the absolute value of the 32-bit word read as a signed integer
signedMagnitude(h) ==
  IF h[1] < 32768 THEN Num(h[1], h[2])
  ELSE IF h[2] = 0 THEN Num(Radix - h[1], 0)
       ELSE Num(Radix - 1 - h[1], Radix - h[2])

\* C9: the seed is the absolute value of the hash h := h * 31 + charCode,
\* wrapped to a signed 32-bit integer after every character, over the first
\* 500 characters of the text followed by the title.
C9_SeedIsWrappedPolynomialHash ==
  SeedComputed =>
     LET input == SubSeq(text, 1, Min(500, Len(text))) \o title
     IN seed = signedMagnitude(polyHash(input, 1, Len(input), <<0, 0>>))

\* a text longer than 500 code units whose hash wrapped
C9_Witness ==
  /\ SeedComputed /\ ares.status = 200
  /\ Len(text) > 500 /\ Len(title) > 0 /\ seed.hi > 0

\* ------------------------------------------- properties of extractKeywords
\* a ranks before b: more occurrences, or as many and an earlier first one
ranksBefore(words, a, b) ==
  LET firstAt(w) == CHOOSE i \in 1..Len(words) :
                       words[i] = w /\ \A j \in 1..(i - 1) : words[j] /= w
  IN \/ countOf(words, a) > countOf(words, b)
     \/ countOf(words, a) = countOf(words, b) /\ firstAt(a) < firstAt(b)

\* the distinct words by descending frequency, ties in order of first
\* occurrence, cut at maxKeywords
rankedKeywords(words, maxKeywords) ==
  LET distinct == {words[i] : i \in 1..Len(words)}
      rank(w) == 1 + Cardinality({u \in distinct : ranksBefore(words, u, w)})
  IN [k \in 1..Min(maxKeywords, Cardinality(distinct)) |->
        CHOOSE w \in distinct : rank(w) = k]

\* C10: extractKeywords returns the distinct tokens by descending frequency,
\* equal frequencies in order of first occurrence in the text, cut at
\* maxKeywords; digit-only tokens are tokens like any other.
C10_RankedByFrequencyThenFirstOccurrence ==
  kpc = "returned" => kresult = rankedKeywords(tokenize(ktext), kmax)

\* the length of raw after the cut at 3000 code units and the trim
cutTrimmedLength(raw) ==
  LET cut == SubSeq(raw, 1, Min(3000, Len(raw)))
      inked == {i \in 1..Len(cut) : ~IsSpace(cut[i])}
  IN IF inked = {} THEN 0
     ELSE (CHOOSE i \in inked : \A j \in inked : j <= i)
            - (CHOOSE i \in inked : \A j \in inked : i <= j) + 1

Unreadable == ~areq.parseOk \/ cutTrimmedLength(areq.text) < 10

AnalyzeOutcome ==
  (apc = "done" /\ areq.hasFile) =>
     /\ Unreadable =>
           /\ ares.status = 422 /\ ares.body = NoReading
           /\ reading = NoReading /\ keywords = <<>>
     /\ ~Unreadable =>
           /\ ares.status = 200 /\ ares.body = reading
           /\ Len(reading.cards) = 3 /\ reading.keywords = keywords

\* C13: the analysis answers 422 without a Reading exactly when parsing
\* throws or the text, cut at 3000 characters and trimmed, is shorter than 10
\* characters, and otherwise goes on to keywords and a Reading; extraction is
\* attempted once per request: the step after it always ends the call.
C13_UnreadableIs422WithoutRetry ==
  /\ []AnalyzeOutcome
  /\ [][apc = "extracting" => apc' = "done"]_vars

\* the cut leaves 9 code units of a text that has 13 when trimmed whole
C13_Witness ==
  /\ apc = "done" /\ areq.parseOk /\ ares.status = 422
  /\ Len(areq.text) > 3000 /\ cutTrimmedLength(areq.text) = 9

\* ------------------------------------------- properties of the helpers
\* how many words of the i-th category are keywords, compared in lower case
sharedWords(i, kws) ==
  Cardinality({w \in {categories[i].words[j] : j \in 1..Len(categories[i].words)} :
                 \E k \in 1..Len(kws) : toLowerCase(kws[k]) = w})

\* C11: categorizeDocument returns the category sharing the most words with
\* the keywords when that number is not zero, the earliest such category in
\* table order on ties, and "general" exactly when no category shares a word.
C11_MostSharedWordsEarliestWins ==
  hpc = "categorizeDocument" =>
     LET kws == hargs[1]
         most == CHOOSE n \in 0..8 :
                   /\ \E i \in 1..6 : sharedWords(i, kws) = n
                   /\ \A i \in 1..6 : sharedWords(i, kws) <= n
     IN /\ (most = 0) <=> (hresult = "general")
        /\ most > 0 =>
              LET first == CHOOSE i \in 1..6 :
                              /\ sharedWords(i, kws) = most
                              /\ \A j \in 1..(i - 1) : sharedWords(j, kws) < most
              IN hresult = <<"technical", "business", "legal", "academic",
                             "creative", "administrative">>[first]

\* business and technical share one word each; business comes first among
\* the keywords, technical first in the table
C11_Witness ==
  /\ hpc = "categorizeDocument"
  /\ Len(hargs[1]) = 2
  /\ sharedWords(1, hargs[1]) = 1 /\ sharedWords(2, hargs[1]) = 1
  /\ hargs[1][1] = CategoryWordPool[3]
  /\ hresult = "technical"

\* the line is one word of the text: it has no space and stands between
\* spaces or the ends of the text
IsWordOf(line, str) ==
  /\ \A i \in 1..Len(line) : line[i] /= 32
  /\ \E p \in 1..(Len(str) - Len(line) + 1) :
        /\ SubSeq(str, p, p + Len(line) - 1) = line
        /\ (p = 1 \/ str[p - 1] = 32)
        /\ (p + Len(line) > Len(str) \/ str[p + Len(line)] = 32)

\* C12: every line wrapText emits is at most maxChars long, except a line
\* that is exactly one word longer than maxChars, which is emitted whole.
C12_LinesFitOrAreOneLongWord ==
  hpc = "wrapText" =>
     \A i \in 1..Len(hresult) :
        \/ Len(hresult[i]) <= hargs[2]
        \/ IsWordOf(hresult[i], hargs[1])

\* one long word emitted whole beside a line of two words that fills maxChars
C12_Witness ==
  /\ hpc = "wrapText"
  /\ \E i \in 1..Len(hresult) : Len(hresult[i]) > hargs[2]
  /\ \E i \in 1..Len(hresult) :
        Len(hresult[i]) = hargs[2] /\ \E j \in 1..Len(hresult[i]) : hresult[i][j] = 32

\* word characters and - _ . , ! ? ' " ( )
IsTitleInk(c) ==
  c \in (48..57) \cup (65..90) \cup (97..122) \cup {95, 45, 46, 44, 33, 63, 39, 34, 40, 41}

\* C14: the cleaned title is not empty, has at most 80 characters, all of
\* them allow-listed (word characters, whitespace, - _ . , ! ? ' " ( )), no
\* two whitespace characters in a row, and is "Untitled Document" whenever
\* cleaning leaves nothing.
C14_CleanTitleShape ==
  hpc = "cleanTitle" =>
     /\ Len(hresult) >= 1 /\ Len(hresult) <= 80
     /\ \A i \in 1..Len(hresult) : IsTitleInk(hresult[i]) \/ IsSpace(hresult[i])
     /\ \A i \in 1..(Len(hresult) - 1) : ~(IsSpace(hresult[i]) /\ IsSpace(hresult[i + 1]))
     /\ (\A i \in 1..Len(hargs[1]) : ~IsTitleInk(hargs[1][i])) => hresult = UntitledDocument

\* a raw title with characters off the list, cut at 80
C14_Witness ==
  /\ hpc = "cleanTitle" /\ Len(hresult) = 80
  /\ \E i \in 1..Len(hargs[1]) : ~IsTitleInk(hargs[1][i]) /\ ~IsSpace(hargs[1][i])

\* text cut to max: text itself when it fits, else max - 3 characters and "..."
cutTo(str, max) ==
  IF Len(str) <= max THEN str ELSE SubSeq(str, 1, max - 3) \o <<46, 46, 46>>

TruncatesOnCover ==
  hpc = "createCoverPage" =>
     /\ hresult.title = cutTo(IF hargs[1].title = <<>> THEN UntitledDocument
                               ELSE hargs[1].title, 50)
     /\ Len(hresult.title) <= 50
     /\ \A i \in 1..3 :
           /\ hresult.cards[i].name = cutTo(hargs[1].cards[i].name, 18)
           /\ Len(hresult.cards[i].name) <= 18

\* C15 as stated: for every text and max, truncateText returns the text when
\* it fits and otherwise its first max - 3 characters and "...", never more
\* than max characters; the cover cuts the title at 50 and card names at 18.
C15_TruncateEveryMax ==
  /\ hpc = "truncateText" =>
        /\ Len(hargs[1]) <= hargs[2] => hresult = hargs[1]
        /\ Len(hargs[1]) > hargs[2] =>
              hresult = SubSeq(hargs[1], 1, hargs[2] - 3) \o <<46, 46, 46>>
        /\ Len(hresult) <= hargs[2]
  /\ TruncatesOnCover

\* C15 amended: the same for every max >= 3 (below 3 the slice end is
\* negative and the result is longer than max), which covers the two limits
\* the cover uses, 50 and 18.
C15_TruncateFromThree ==
  /\ (hpc = "truncateText" /\ hargs[2] >= 3) =>
        /\ hresult = cutTo(hargs[1], hargs[2])
        /\ Len(hresult) <= hargs[2]
  /\ TruncatesOnCover

\* a title of 51 characters on the cover
C15_Witness ==
  /\ hpc = "createCoverPage" /\ Len(hargs[1].title) = 51
  /\ Len(hresult.title) = 50 /\ SubSeq(hresult.title, 48, 50) = <<46, 46, 46>>
  /\ Len(hargs[1].cards[3].name) > 18 /\ Len(hresult.cards[3].name) = 18

\* ------------------------------------------------------ the client hooks
TransientErrors == {"timeout", "network", "server", "unknown"}

\* C18: for transient failures every analyze() call makes at most
\* MAX_RETRIES + 1 = 3 request attempts, waits RETRY_DELAY times the retry
\* number before each retry, and has ended in an error only after its third
\* attempt failed.
C18_ThreeAttemptsWithBackoff ==
  \A c \in 1..MaxOperations :
    LET call == analyzeCalls[c]
    IN  /\ call.attempts <= MAX_RETRIES + 1
        /\ call.pc = "sleeping" => call.delay = RETRY_DELAY * call.attempts
        /\ call.pc = "returned" /\ call.thrown \in TransientErrors
             => call.attempts = MAX_RETRIES + 1

\* an attempt of call c settles in this step
Settles(c) == analyzeCalls[c].pc = "fetching" /\ analyzeCalls'[c].pc # "fetching"

\* C19: an attempt that fails with pdf_unreadable (every HTTP 400 or 422) or
\* with invalid_response ends its analyze() call at once, with the hook in
\* ERROR holding that error type, and a call that has ended makes no further
\* attempt.
C19_UnreadableOrInvalidEndsTheCall ==
  /\ [](\A o \in AnalyzeOutcomes :
          o.kind = "response" /\ o.status \in {400, 422}
            => attemptError(o) = "pdf_unreadable")
  /\ [][\A c \in 1..MaxOperations :
          Settles(c) /\ analyzeCalls'[c].thrown \in {"pdf_unreadable", "invalid_response"}
            => /\ analyzeCalls'[c].pc = "returned"
               /\ analysisHook'.state = "error"
               /\ analysisHook'.error = analyzeCalls'[c].thrown]_vars
  /\ [][\A c \in 1..MaxOperations :
          analyzeCalls[c].pc = "returned"
            => /\ analyzeCalls'[c].pc = "returned"
               /\ analyzeCalls'[c].attempts = analyzeCalls[c].attempts]_vars

\* a second attempt got an invalid response, and the call ended in ERROR
C19_Witness ==
  \E c \in 1..MaxOperations :
    /\ analyzeCalls[c].pc = "returned" /\ analyzeCalls[c].attempts = 2
    /\ analyzeCalls[c].thrown = "invalid_response"
    /\ analysisHook.state = "error" /\ analysisHook.error = "invalid_response"

\* C20: every exportPdf() call makes at most EXPORT_MAX_RETRIES + 1 = 2
\* render request attempts and has ended in an error only after both failed;
\* a call whose file or analysis is missing, or whose analysis lacks three
\* cards or an aura, ends without any attempt.
C20_TwoAttemptsOrMissingData ==
  \A c \in 1..MaxOperations :
    LET call == exportCalls[c]
    IN  /\ call.attempts <= EXPORT_MAX_RETRIES + 1
        /\ call.pc = "returned" /\ call.thrown # "none"
             => call.attempts = EXPORT_MAX_RETRIES + 1
        /\ call.pc = "returned" /\ ~call.valid => call.attempts = 0

C22_SetItemReturnsAfterBoundedWrites ==
  /\ storageCall.result \in {"none", "true", "false"}
  /\ storageCall.writes <= 3


\* C23: every keyword extractKeywords returns is made of lowercase letters
\* and digits only, has at least four characters, is no stop word and occurs
\* once in the result; the result has at most maxKeywords entries.
C23_KeywordsWellFormed ==
  kpc = "returned" =>
    /\ Len(kresult) <= kmax
    /\ \A i \in 1..Len(kresult) :
         /\ Len(kresult[i]) >= 4
         /\ \A j \in 1..Len(kresult[i]) : IsLower(kresult[i][j]) \/ IsDigit(kresult[i][j])
         /\ kresult[i] \notin STOP_WORDS
         /\ \A k \in 1..Len(kresult) : k /= i => kresult[k] /= kresult[i]

\* a text with a capital, punctuation, a stop word and a repeated word, cut
\* to the limit
C23_Witness ==
  /\ kpc = "returned" /\ Len(kresult) = kmax /\ kmax = 2
  /\ \E i \in 1..Len(ktext) : IsUpper(ktext[i])
  /\ \E i \in 1..Len(ktext) : ktext[i] = 33
  /\ Len(tokenize(ktext)) > Len(kresult)


\* C24: a Reading generateReading produces has exactly three cards, for
\* past, present and future in that order, each one an entry of the deck of
\* its own position; its aura is the name of an entry of the aura deck, its
\* certification an entry of the certification deck; title, keywords and
\* category are the ones handed in.
C24_ReadingDrawnFromItsDecks ==
  apc = "done" /\ reading /= NoReading =>
    /\ Len(reading.cards) = 3
    /\ \A p \in 1..3 :
         LET position == <<"past", "present", "future">>[p]
         IN  /\ reading.cards[p].position = position
             /\ \E i \in 1..Len(CARD_DECKS[position]) :
                  /\ CARD_DECKS[position][i].name = reading.cards[p].name
                  /\ CARD_DECKS[position][i].meaning = reading.cards[p].meaning
    /\ \E i \in 1..Len(AURAS) : AURAS[i].name = reading.aura
    /\ \E i \in 1..Len(CERTIFICATIONS) : CERTIFICATIONS[i] = reading.certification
    /\ reading.title = title
    /\ reading.keywords = keywords
    /\ reading.category = category

\* a Reading sent with a title and keywords of the document
C24_Witness ==
  /\ apc = "done" /\ ares.status = 200 /\ ares.body = reading
  /\ Len(reading.title) > 0 /\ Len(reading.keywords) > 1
  /\ reading.cards[2].position = "present"


\* C25: the seed hashCode returns is an integer from 0 to 2^31 - 1, also
\* when the wrapped hash is -2^31.
C25_SeedBelowTwoToThe31 ==
  SeedComputed => seed.hi >= 0 /\ seed.hi < 32768 /\ seed.lo \in 0..(Radix - 1)


\* the text is one or more non-empty words with one space between them
SingleSpaced(str) ==
  /\ Len(str) > 0 /\ str[1] /= 32 /\ str[Len(str)] /= 32
  /\ \A i \in 1..(Len(str) - 1) : ~(str[i] = 32 /\ str[i + 1] = 32)

\* C26: for a text of non-empty words separated by single spaces and
\* maxChars >= 1, the lines of wrapText joined with single spaces are the
\* text again (no word split, dropped, doubled or moved), and no line is
\* empty.
C26_WrapKeepsEveryWord ==
  hpc = "wrapText" /\ SingleSpaced(hargs[1]) /\ hargs[2] >= 1 =>
     /\ joinWords(hresult, [i \in 1..Len(hresult) |-> i]) = hargs[1]
     /\ \A i \in 1..Len(hresult) : hresult[i] /= <<>>

\* four words on three lines: two words share a line, one word is longer
\* than maxChars
C26_Witness ==
  /\ hpc = "wrapText" /\ SingleSpaced(hargs[1])
  /\ Len(splitSpaces(hargs[1])) = 4 /\ Len(hresult) = 3
  /\ \E i \in 1..3 : \E j \in 1..Len(hresult[i]) : hresult[i][j] = 32
  /\ \E i \in 1..3 : Len(hresult[i]) > hargs[2]


\* C27: once cancel() or reset() has found the current call in flight or
\* waiting to retry, the hook is idle with neither result nor error until
\* the next analyze(): the call that was aborted never puts the hook in
\* ERROR or SUCCESS (the only places where onError and onAnalysisComplete
\* are invoked).
C27_CancelledHookStaysIdle ==
  analysisHook.current /= 0 /\ analyzeCalls[analysisHook.current].cancelled
    => /\ analysisHook.state = "idle"
       /\ analysisHook.result = "null"
       /\ analysisHook.error = "null"

\* C28: a call that is not the most recent one changes neither state nor
\* result nor error of the hook when it goes on.
C28_EarlierCallLeavesTheHookAlone ==
  [][\A c \in 1..MaxOperations :
       c < analysisHook.current /\ analyzeCalls'[c] /= analyzeCalls[c]
         => /\ analysisHook'.state = analysisHook.state
            /\ analysisHook'.result = analysisHook.result
            /\ analysisHook'.error = analysisHook.error]_vars

\* C29: when running calls go on, an analyze() call that has begun and is
\* not cancelled or reset does not run forever, it ends with the hook in
\* SUCCESS or ERROR, and the hook does not stay in ANALYZING.
C29_CallsEnd ==
  /\ \A c \in 1..MaxOperations :
       []<>(analyzeCalls[c].pc \in {"fetching", "sleeping"} => analyzeCalls[c].cancelled)
  /\ [][\A c \in 1..MaxOperations :
          /\ analyzeCalls[c].pc \in {"fetching", "sleeping"}
          /\ analyzeCalls'[c].pc = "returned"
          /\ ~analyzeCalls'[c].cancelled
          => analysisHook'.state \in {"success", "error"}]_vars
  /\ []<>(analysisHook.state /= "analyzing")

\* a call has ended in ERROR after three attempts, never cancelled
C29_Witness ==
  \E c \in 1..MaxOperations :
    /\ analyzeCalls[c].pc = "returned" /\ analyzeCalls[c].attempts = MAX_RETRIES + 1
    /\ ~analyzeCalls[c].cancelled /\ analyzeCalls[c].thrown = "server"
    /\ analysisHook.state = "error"

\* C30: SUCCESS goes with a result and no error, ERROR with an error and no
\* result, ANALYZING and IDLE with neither.
C30_StateMatchesResultAndError ==
  /\ analysisHook.state = "success"
       => analysisHook.result /= "null" /\ analysisHook.error = "null"
  /\ analysisHook.state = "error"
       => analysisHook.error /= "null" /\ analysisHook.result = "null"
  /\ analysisHook.state \in {"analyzing", "idle"}
       => analysisHook.result = "null" /\ analysisHook.error = "null"


\* the index combinations the claim allows: present and future follow past
\* in the ring of 8, the certification follows the aura in the ring of 10
LinkedSelections ==
  {<<p, (p + 1) % 8, (p + 2) % 8, a, (a + 1) % 10>> : p \in 0..7, a \in 0..9}

\* the combinations seen for the seeds of the pool
SelectionsOfPool == {selectedIndices(s) : s \in SeedPool}

\* C35: for every seed, present = (past + 1) mod 8, future = (past + 2) mod
\* 8 and certification = (aura + 1) mod 10; at most 40 combinations of the
\* five indices occur.
C35_SelectionsAreLinked ==
  hpc = "selectSeeded" =>
    /\ hresult[2] = (hresult[1] + 1) % 8
    /\ hresult[3] = (hresult[1] + 2) % 8
    /\ hresult[5] = (hresult[4] + 1) % 10
    /\ hresult \in LinkedSelections
    /\ Cardinality(SelectionsOfPool) <= 40

\* the seed 2^31 selects past 0 and aura 1 (2^31 + 3 = 2147483651)
C35_Witness ==
  /\ hpc = "selectSeeded" /\ hargs[1] = Num(32768, 0)
  /\ hresult = <<0, 1, 2, 1, 2>>
  /\ Cardinality(SelectionsOfPool) = 40


\* C37: on the cover of a rendered Reading with one card per position, the
\* block labelled PAST, PRESENT or FUTURE, bordered in that position's
\* color, shows the name and the meaning of the card whose position field
\* is past, present or future, in whatever order the cards array holds them.
C37_BlocksShowTheCardOfTheirPosition ==
  (rpc = "done" /\ rres.status = 200 /\ EachPositionOnce(rreq.analysis.cards)) =>
     \A i \in 1..3, j \in 1..3 :
        rreq.analysis.cards[j].position = <<"past", "present", "future">>[i] =>
           /\ rres.pdf[1].cards[i].label = positionLabels[i]
           /\ rres.pdf[1].cards[i].color = positionColors[i]
           /\ rres.pdf[1].cards[i].name =
                truncateText(rreq.analysis.cards[j].name, CARD_NAME_MAX)
           /\ rres.pdf[1].cards[i].lines =
                slice(wrapText(rreq.analysis.cards[j].meaning, MEANING_WRAP), MEANING_LINES)


\* C36: a Reading returned by a successful analyze call and posted verbatim
\* to render passes the validation of the render handler (no 400 answer);
\* when the same request is repeated and both calls answer with a document,
\* the two documents have the same number of pages, the same pages in the
\* same order and a cover of the same width and height.
C36_ReadingRendersTheSameTwice ==
  /\ (rpc /= "idle" /\ rreq.analysis = resubmitted(ares.body)) =>
        /\ ~cardsInvalid(rreq.analysis) /\ ~auraInvalid(rreq.analysis)
        /\ rres.status /= 400
  /\ (rpc = "done" /\ rres.status = 200 /\ rprev.status = 200) =>
        /\ Len(rres.pdf) = Len(rprev.pdf)
        /\ \A i \in 1..Len(rres.pdf) :
             /\ rres.pdf[i].kind = rprev.pdf[i].kind
             /\ rres.pdf[i].width = rprev.pdf[i].width
             /\ rres.pdf[i].height = rprev.pdf[i].height
             /\ rres.pdf[i].kind = "original" => rres.pdf[i].id = rprev.pdf[i].id

\* the Reading of an analyze call rendered twice over a document of more
\* than one page, both times with a document as the answer
C36_Witness ==
  /\ apc = "done" /\ ares.status = 200 /\ rreq.analysis = resubmitted(ares.body)
  /\ rpc = "done" /\ rres.status = 200 /\ rprev.status = 200
  /\ Len(rres.pdf) > 2 /\ rres.pdf[1].kind = "cover"


\* the calls made on the hook are a file handed over and the end of its
\* analysis, which started the one reveal sequence there is; before them
\* there were only files handed over and resets
OneSequence ==
  /\ Len(readingCalls) >= 2
  /\ readingCalls[Len(readingCalls)] = "handleAnalysisComplete"
  /\ \A k \in 1..(Len(readingCalls) - 1) : readingCalls[k] \in {"handleFileReady", "resetReading"}

revealRank(state) == CASE state = "hidden" -> 0 [] state = "revealing" -> 1 [] OTHER -> 2

AllRevealed == \A p \in Positions : cardRevealStates[p] = "revealed"

\* C31: in the reveal sequence that the end of an analysis starts, the
\* cards enter REVEALING in the order past, present, future; a card goes
\* from HIDDEN to REVEALING to REVEALED, one step at a time and never back;
\* revealComplete is true, and onReadingComplete has been called, only when
\* all three cards are REVEALED.
C31_CardsRevealInOrder ==
  /\ [](OneSequence =>
          /\ cardRevealStates.present /= "hidden" => cardRevealStates.past /= "hidden"
          /\ cardRevealStates.future /= "hidden" => cardRevealStates.present /= "hidden"
          /\ (revealComplete \/ readingCompleteCalls > 0) => AllRevealed)
  /\ [][(OneSequence /\ OneSequence') =>
          \A p \in Positions :
            LET before == revealRank(cardRevealStates[p])
                after == revealRank(cardRevealStates'[p])
            IN after \in {before, before + 1}]_vars

\* the sequence has run to its end: onReadingComplete was called once
C31_Witness ==
  /\ OneSequence /\ timers = <<>>
  /\ AllRevealed /\ revealComplete /\ readingCompleteCalls = 1

\* C32: after resetReading() or a new upload (handleFileReady) while a
\* reveal sequence is running, the three cards stay HIDDEN and
\* revealComplete stays false until an analysis ends and starts a new
\* sequence: the timers of the earlier sequence change nothing.
C32_ResetStopsTheSequence ==
  (/\ Len(readingCalls) > 0
   /\ readingCalls[Len(readingCalls)] \in {"resetReading", "handleFileReady"}) =>
     /\ cardRevealStates = HiddenCards
     /\ revealComplete = FALSE


\* C33: in the App, at most one render request is in flight at any time,
\* and from a state where an export is rendering or the ExportButton is not
\* idle no step starts an exportPdf call.
C33_OneRenderRequestInFlight ==
  /\ [](Cardinality({c \in 1..MaxOperations : InFlight(c)}) <= 1)
  /\ [][(exportHook.state = "rendering" \/ exportButton.state /= "idle") =>
          \A c \in 1..MaxOperations :
            exportCalls[c].pc = "idle" => exportCalls'[c].pc = "idle"]_vars

\* a click that was ignored while the second export of the session was
\* rendering, the first one having been aborted by Read Another Document
C33_Witness ==
  /\ currentView = "reading" /\ exportButton.clicked = "ignored"
  /\ exportHook.state = "rendering" /\ exportHook.current = 2
  /\ InFlight(2) /\ exportCalls[1].aborted

\* C34: the ExportButton shows 'success' only when the export it started
\* has ended with the download triggered and useExport in SUCCESS.
C34_SuccessAfterTheDownload ==
  exportButton.state = "success" =>
    /\ exportHook.state = "success"
    /\ exportCalls[exportHook.current].pc = "returned"
    /\ exportCalls[exportHook.current].thrown = "none"
====
